---- MODULE Spec2Model ----
(***************************************************************************)
(* Verification model of the snow-aggregate geometry engine                *)
(* (src/aggregation/aggregate.py, src/aggregation/tripfreq_runs.py).       *)
(*                                                                         *)
(* Numbers.  The program computes with floating-point reals.  The model    *)
(* computes exactly: every coordinate of a cloud is a rational number      *)
(* num/den, stored as the integer numerator together with the cloud's      *)
(* common positive denominator den (kept in lowest terms).  Square roots   *)
(* are taken only of perfect squares; random draws are enumerated over the *)
(* integer numerators of the code's draw interval for which every root    *)
(* the iteration takes is exact.                                           *)
(***************************************************************************)
EXTENDS Integers, Sequences, FiniteSets, TLC

VARIABLES
    agg,            \* the Aggregate object (self)
    pre,            \* copy of agg taken when the operation in progress was called
    gcall,          \* grid(): the res argument
    Xc,             \* grid(): the sorted array of occupied cells
    Xc_overlap,     \* grid(): the duplicate cells still to relocate
    gi,             \* grid(): loop index i over Xc_overlap
    cube_rad,       \* grid(): the shell neighbors_by_distance() is yielding
    tried,          \* grid(): candidates the generator has yielded for Xm (saturates)
    gpc,            \* grid(): position ("idle", "relocate", "done")
    gout,           \* grid(): what the call produced
    call,           \* add_particle(): the arguments and the environment of the call
    pc,             \* add_particle(): position ("idle", "loop", "done")
    attempts,       \* add_particle(): passes of the placement loop begun (saturates)
    loc,            \* add_particle(): the locals (masked particle, limits, site)
    result,         \* add_particle(): what the call returned or raised
    pool,           \* generate_aggregate(): the list agg of aggregates
    bsel,           \* generate_aggregate(): N, align and the pair being merged
    bpc,            \* generate_aggregate(): position ("idle", "pick", "merge", "done")
    bout,           \* generate_aggregate(): what the call returned or raised
    rloc,           \* add_rime_particles(): the arguments and the locals
    rpc,            \* add_rime_particles(): position ("idle", "place", "done")
    lastop,         \* the member function called last, its arguments and outcome
    cloc            \* compact_rime(): the arguments, the locals and the position

gridVars == <<gcall, Xc, Xc_overlap, gi, cube_rad, tried, gpc, gout>>
callVars == <<call, pc, attempts, loc, result>>
buildVars == <<pool, bsel, bpc, bout>>
rimeVars == <<rloc, rpc>>
opVars == <<lastop, cloc>>
vars == <<agg, pre, gridVars, callVars, buildVars, rimeVars, opVars>>

-----------------------------------------------------------------------------
(* Bounds of the model *)

\* longest generated monomer cloud enumerated for the grid specification
MaxGridLen == 2

\* value at which the count of placement attempts stops growing
MaxAttempts == 3

\* value at which the count of candidate cells of one shell search stops growing
MaxCandidates == 200

-----------------------------------------------------------------------------
(* Arithmetic helpers *)

Abs(n) == IF n < 0 THEN -n ELSE n

Min2(a, b) == IF a <= b THEN a ELSE b

Max2(a, b) == IF a >= b THEN a ELSE b

RECURSIVE Gcd(_, _)
Gcd(a, b) == IF b = 0 THEN Abs(a) ELSE Gcd(b, a % Abs(b))

RECURSIVE SeqSum(_)
SeqSum(s) == IF s = <<>> THEN 0 ELSE Head(s) + SeqSum(Tail(s))

SeqMin(s) == CHOOSE m \in {s[i] : i \in DOMAIN s} : \A i \in DOMAIN s : m <= s[i]

SeqMax(s) == CHOOSE m \in {s[i] : i \in DOMAIN s} : \A i \in DOMAIN s : m >= s[i]

Col(X, k) == [i \in DOMAIN X |-> X[i][k]]

\* rows of X selected by the boolean mask keep, in order (numpy X[keep,:])
RECURSIVE SelectRows(_, _)
SelectRows(X, keep) ==
    IF X = <<>> THEN <<>>
    ELSE (IF Head(keep) THEN <<Head(X)>> ELSE <<>>)
         \o SelectRows(Tail(X), Tail(keep))

\* numpy round(): n/d rounded to the nearest integer, halves to the even one
RoundHalfEven(n, d) ==
    LET q == n \div d
        r == n - q * d
    IN  IF 2 * r < d THEN q
        ELSE IF 2 * r > d THEN q + 1
        ELSE IF q % 2 = 0 THEN q ELSE q + 1

IsSquare(k) == k >= 0 /\ \E s \in 0..k : s * s = k

Sqrt(k) == CHOOSE s \in 0..k : s * s = k

-----------------------------------------------------------------------------
(* Aggregate: construction and bookkeeping *)

ZeroExtent == <<<<0, 0>>, <<0, 0>>, <<0, 0>>>>

ExtentOf(X) ==
    IF Len(X) # 0
    THEN [k \in 1..3 |-> <<SeqMin(Col(X, k)), SeqMax(Col(X, k))>>]
    ELSE ZeroExtent

update_extent_Stale(a) == a

update_extent(a) == [a EXCEPT !.extent = ExtentOf(a.X)]

\* the cloud X/den with numerators and denominator divided by their common divisor
Normalise(X, den) ==
    LET nums == {X[i][k] : i \in DOMAIN X, k \in 1..3}
        RECURSIVE GcdSet(_, _)
        GcdSet(S, g) == IF S = {} THEN g
                        ELSE LET e == CHOOSE e \in S : TRUE
                             IN  GcdSet(S \ {e}, Gcd(g, e))
        g == GcdSet(nums, den)
    IN  [X |-> [i \in DOMAIN X |-> [k \in 1..3 |-> X[i][k] \div g]],
         den |-> den \div g]

\* X - X.mean(0): an empty cloud stays empty
Recentred(X, den) ==
    LET n == Len(X)
    IN  IF n = 0 THEN [X |-> X, den |-> 1]
        ELSE Normalise([i \in DOMAIN X |->
                           [k \in 1..3 |-> n * X[i][k] - SeqSum(Col(X, k))]],
                       n * den)

update_coordinates(a) ==
    LET c == Recentred(a.X, a.den)
    IN  update_extent([a EXCEPT !.X = c.X, !.den = c.den])

\* Aggregate.__init__: the generator's cloud as it is, extent computed
NewAggregate(cloud, ident, grid_res) ==
    update_extent([X |-> cloud, den |-> 1,
                   ident |-> [i \in DOMAIN cloud |-> ident],
                   extent |-> ZeroExtent,
                   monomer_number |-> 1,
                   id_tree |-> <<"leaf", ident>>,
                   mono_type |-> <<"leaf", 0>>,
                   grid_res |-> grid_res])

\* the coordinates added_elements/addDen expressed over the denominator den*addDen
add_elements(a, added_elements, addDen, ident, update) ==
    LET X1 == [i \in DOMAIN a.X |-> [k \in 1..3 |-> a.X[i][k] * addDen]]
        X2 == [i \in DOMAIN added_elements |->
                  [k \in 1..3 |-> added_elements[i][k] * a.den]]
        b  == [a EXCEPT !.X = X1 \o X2, !.den = a.den * addDen,
                        !.extent = [k \in 1..3 |->
                                       <<a.extent[k][1] * addDen,
                                         a.extent[k][2] * addDen>>],
                        !.ident = a.ident \o [i \in DOMAIN added_elements |-> ident]]
    IN  IF update THEN update_coordinates(b) ELSE b

\* tolerance is the rational tol[1]/tol[2]; targets are integer coordinates
remove_elements(a, removed_elements, tol, update) ==
    LET dist_sqr(i, re) ==
            (a.X[i][1] - re[1] * a.den) * (a.X[i][1] - re[1] * a.den)
          + (a.X[i][2] - re[2] * a.den) * (a.X[i][2] - re[2] * a.den)
          + (a.X[i][3] - re[3] * a.den) * (a.X[i][3] - re[3] * a.den)
        keep == [i \in DOMAIN a.X |->
                    \A j \in DOMAIN removed_elements :
                        ~(dist_sqr(i, removed_elements[j]) * tol[2]
                            < a.grid_res * a.grid_res * a.den * a.den * tol[1])]
        b == [a EXCEPT !.X = SelectRows(a.X, keep),
                       !.ident = SelectRows(a.ident, keep)]
    IN  IF update THEN update_coordinates(b) ELSE b

-----------------------------------------------------------------------------
(* add_particle(): the pure parts.  Coordinates below are numerators over   *)
(* one common denominator; R is grid_res over that denominator.            *)

NoCall == [particle |-> <<>>, pden |-> 1, generated |-> FALSE, ident |-> <<>>,
           required |-> FALSE, pen_depth |-> 0, mf |-> 100, addN |-> <<>>,
           branch |-> <<>>, mono |-> <<>>, maxheight |-> "default"]

\* the locals of add_particle: the masked particle x, y, z over the common
\* denominator, the limits x0..y1, and what the placement loop leaves behind
NoLoc == [xyz |-> <<>>, x0 |-> 0, x1 |-> 0, y0 |-> 0, y1 |-> 0,
          site_found |-> FALSE, x_shift |-> 0, y_shift |-> 0, min_z_sep |-> <<>>]

Scaled(X, k) == [i \in DOMAIN X |-> [c \in 1..3 |-> X[i][c] * k]]

Sq(n) == n * n

\* the squared distance of the points p and q
Dist2(p, q) == Sq(p[1] - q[1]) + Sq(p[2] - q[2]) + Sq(p[3] - q[3])

\* the infinite separation is <<>>, a finite one <<v>>
MinSep(a, b) ==
    IF a = <<>> THEN b
    ELSE IF b = <<>> THEN a
    ELSE IF a[1] <= b[1] THEN a ELSE b

\* the k-th smallest (k counted from 0) of the numbers of the sequence d
KthSmallest(d, k) ==
    CHOOSE v \in {d[i] : i \in DOMAIN d} :
        /\ Cardinality({i \in DOMAIN d : d[i] < v}) <= k
        /\ Cardinality({i \in DOMAIN d : d[i] <= v}) > k

\* (n * den * |Xp[i] - mean(Xp)|)^2 for every row: distance2center, squared
\* and scaled so that it stays an integer
distance2center(Xp) ==
    [i \in DOMAIN Xp |->
          Sq(Len(Xp) * Xp[i][1] - SeqSum(Col(Xp, 1)))
        + Sq(Len(Xp) * Xp[i][2] - SeqSum(Col(Xp, 2)))
        + Sq(Len(Xp) * Xp[i][3] - SeqSum(Col(Xp, 3)))]

\* sqrt(d) >= sqrt(dmax) - q: the comparison of mask_pd turned round
WithinDepth_Outer(d, dmax, q) ==
    \/ dmax - d - q * q <= 0
    \/ 4 * q * q * d >= Sq(dmax - d - q * q)

\* sqrt(d) <= sqrt(dmax) - q for q >= 0, compared through the squares
WithinDepth(d, dmax, q) ==
    /\ dmax - d - q * q >= 0
    /\ 4 * q * q * d <= Sq(dmax - d - q * q)

\* mask_mf | mask_pd from the squared distances d2, the index k of the
\* distance limit in the sorted distances, and the scaled pen_depth q
mask_mf_or_pd(d2, k, q) ==
    [i \in DOMAIN d2 |-> \/ d2[i] <= KthSmallest(d2, k)
                         \/ WithinDepth(d2[i], SeqMax(d2), q)]

\* pen_depth_intersection_mask over the cloud Xp/den; pen_depth in length units
pen_depth_intersection_mask(Xp, den, pen_depth, mf) ==
    IF mf >= 100 THEN [i \in DOMAIN Xp |-> TRUE]
    ELSE mask_mf_or_pd(distance2center(Xp), (Len(Xp) * mf) \div 100,
                       pen_depth * Len(Xp) * den)

\* min_z_separation with the largest instead of the smallest displacement
min_z_separation_Max(elems, ref_elem, grid_res_sqr) ==
    LET x_sep_sqr(e) == Sq(e[1] - ref_elem[1]) + Sq(e[2] - ref_elem[2])
        match == {i \in DOMAIN elems : x_sep_sqr(elems[i]) < grid_res_sqr}
        z_sep(i) == elems[i][3] - ref_elem[3]
                      - Sqrt(grid_res_sqr - x_sep_sqr(elems[i]))
    IN  IF match = {} THEN <<>>
        ELSE <<CHOOSE v \in {z_sep(i) : i \in match} :
                   \A i \in match : v >= z_sep(i)>>

\* min_z_separation(elems, ref_elem, grid_res_sqr)
min_z_separation(elems, ref_elem, grid_res_sqr) ==
    LET x_sep_sqr(e) == Sq(e[1] - ref_elem[1]) + Sq(e[2] - ref_elem[2])
        match == {i \in DOMAIN elems : x_sep_sqr(elems[i]) < grid_res_sqr}
        z_sep(i) == elems[i][3] - ref_elem[3]
                      - Sqrt(grid_res_sqr - x_sep_sqr(elems[i]))
    IN  IF match = {} THEN <<>>
        ELSE <<CHOOSE v \in {z_sep(i) : i \in match} :
                   \A i \in match : v <= z_sep(i)>>

\* Index2D(elem_size).items_near(q, radius): the items whose bucket is the
\* query's bucket or one next to it (a superset of the points within radius)
items_near(items, q, elem_size) ==
    LET near(p) == /\ Abs(p[1] \div elem_size - q[1] \div elem_size) <= 1
                   /\ Abs(p[2] \div elem_size - q[2] \div elem_size) <= 1
    IN  SelectRows(items, [i \in DOMAIN items |-> near(items[i])])

\* find_min_distance(pc1, pc2, epsilon), the function local to add_particle
RECURSIVE find_min_distance(_, _, _)
find_min_distance(pc1, pc2, epsilon) ==
    IF pc2 = <<>> THEN <<>>
    ELSE MinSep(min_z_separation(items_near(pc1, Head(pc2), epsilon),
                                 Head(pc2), epsilon * epsilon),
                find_min_distance(pc1, Tail(pc2), epsilon))

\* floor(t / (R / sqrt 2)) for t >= 0: the bin of np.digitize(...) - 1
BinOf(t, R) ==
    CHOOSE q \in 0..((2 * t) \div R + 1) :
        /\ q * q * R * R <= 2 * t * t
        /\ (q + 1) * (q + 1) * R * R > 2 * t * t

\* len(np.arange(lo, lo + span + bin_size, bin_size)) for bin_size = R / sqrt 2
NumEdges(span, R) ==
    1 + Cardinality({m \in 0..((2 * span) \div R + 1) :
                        m * m * R * R < 2 * span * span})

\* max_height_per_bin(points, grid_res*MAXHEIGHTCOLLISION, inverse) with the
\* default MAXHEIGHTCOLLISION = 1/sqrt 2: one point per occupied bin, the
\* highest (inverse: the lowest) one, the later row among equal heights
max_height_per_bin(points, R, inverse) ==
    IF Len(points) < 1 THEN points
    ELSE LET xlo == SeqMin(Col(points, 1))
             ylo == SeqMin(Col(points, 2))
             nx == NumEdges(SeqMax(Col(points, 1)) - xlo, R)
             bin_index == [i \in DOMAIN points |->
                              BinOf(points[i][1] - xlo, R)
                                + BinOf(points[i][2] - ylo, R) * nx]
             key(i) == IF inverse THEN -points[i][3] ELSE points[i][3]
             last(i) == \A j \in DOMAIN points :
                            (j # i /\ bin_index[j] = bin_index[i]) =>
                                \/ key(j) < key(i)
                                \/ (key(j) = key(i) /\ j < i)
             chosen == {i \in DOMAIN points : last(i)}
             rank(i) == Cardinality({j \in chosen : bin_index[j] < bin_index[i]})
         IN  [k \in 1..Cardinality(chosen) |->
                 points[CHOOSE i \in chosen : rank(i) = k - 1]]


-----------------------------------------------------------------------------
(* Lattice helpers of grid() *)

RECURSIVE compare_row(_, _)
compare_row(x, y) ==
    IF x[1] > y[1] THEN 1
    ELSE IF x[1] < y[1] THEN -1
    ELSE IF Len(x) > 1 THEN compare_row(Tail(x), Tail(y))
    ELSE 0

\* the binary search of row_is_in_sorted_array from the bracket [i0, i1), 0-based
RECURSIVE RowSearch(_, _, _, _)
RowSearch(r, x, i0, i1) ==
    IF i1 - i0 > 1
    THEN LET i == (i0 + i1) \div 2
             c == compare_row(r, x[i + 1])
         IN  IF c = 0 THEN TRUE
             ELSE IF c = 1 THEN RowSearch(r, x, i, i1)
             ELSE RowSearch(r, x, i0, i)
    ELSE compare_row(r, x[i0 + 1]) = 0

row_is_in_sorted_array(r, x) == RowSearch(r, x, 0, Len(x))

\* the bisection of insert_missing_row_in_sorted_array: the final <<i0, i1>>
RECURSIVE InsertBracket(_, _, _, _)
InsertBracket(r, x, i0, i1) ==
    IF i1 - i0 > 1
    THEN LET i == (i0 + i1) \div 2
         IN  IF compare_row(r, x[i + 1]) = 1
             THEN InsertBracket(r, x, i, i1)
             ELSE InsertBracket(r, x, i0, i)
    ELSE <<i0, i1>>

\* the row put after the last row instead of at the index the bisection finds
insert_missing_row_in_sorted_array_AtEnd(r, x) == Append(x, r)

insert_missing_row_in_sorted_array(r, x) ==
    LET b == InsertBracket(r, x, 0, Len(x))
        insert_ind == IF b[2] > 1 THEN b[2]
                      ELSE IF compare_row(r, x[b[1] + 1]) = 1 THEN 1 ELSE 0
    IN  SubSeq(x, 1, insert_ind) \o <<r>> \o SubSeq(x, insert_ind + 1, Len(x))

\* concatenation of f[1], ..., f[n]
RECURSIVE Flatten(_, _)
Flatten(f, n) == IF n = 0 THEN <<>> ELSE Flatten(f, n - 1) \o f[n]

\* the offsets on the outer layer of the cube of radius rad, in the
\* order the generator yields them
outer_layer_of_cube(rad) ==
    LET w == 2 * rad + 1
        irange == [i \in 1..w |-> i - rad - 1]
        dz_iter(dx, dy) ==
            IF Abs(dx) = rad \/ Abs(dy) = rad
            THEN irange ELSE <<-rad, rad>>
        forDy(dx) ==
            Flatten([j \in 1..w |->
                        [k \in DOMAIN dz_iter(dx, irange[j]) |->
                            <<dx, irange[j], dz_iter(dx, irange[j])[k]>>]], w)
    IN  Flatten([i \in 1..w |-> forDy(irange[i])], w)

\* the cell Xm + dX for the k-th offset of a shell
shell_cell(Xm, layer, k) == [c \in 1..3 |-> Xm[c] + layer[k][c]]

\* one shell of neighbors_by_distance() consumed by the loop body of grid():
\* <<k>> for the first offset of the shell whose cell is not in x, <<>> when
\* every cell of the shell is in x
first_free_in_shell(Xm, x, layer) ==
    LET free == {k \in DOMAIN layer :
                    ~row_is_in_sorted_array(shell_cell(Xm, layer, k), x)}
    IN  IF free # {}
        THEN <<CHOOSE k \in free : \A m \in free : k <= m>>
        ELSE <<>>

\* cube_rad += 1, the shell that follows an exhausted one
next_cube_rad_Same(rad) == rad

next_cube_rad(rad) == rad + 1

\* numpy lexsort((z, y, x)): rows in ascending (x, y, z) order
RECURSIVE lexsort_rows(_)
lexsort_rows(X) ==
    IF X = <<>> THEN <<>>
    ELSE LET rest == lexsort_rows(Tail(X))
             below == {i \in DOMAIN rest : compare_row(rest[i], Head(X)) = -1}
             n == Cardinality(below)
         IN  SubSeq(rest, 1, n) \o <<Head(X)>> \o SubSeq(rest, n + 1, Len(rest))

\* s without its element at index i
RemoveAt(s, i) == SubSeq(s, 1, i - 1) \o SubSeq(s, i + 1, Len(s))

\* numpy.random.shuffle: every ordering of the rows of s
RECURSIVE Shuffles(_)
Shuffles(s) ==
    IF s = <<>> THEN {<<>>}
    ELSE LET first == {i \in DOMAIN s : \A j \in 1..(i - 1) : s[j] # s[i]}
         IN  UNION {{<<s[i]>> \o t : t \in Shuffles(RemoveAt(s, i))} : i \in first}

\* (self.X/res).round().astype(int)
RoundedCells(a, res) ==
    [i \in DOMAIN a.X |->
        [k \in 1..3 |-> RoundHalfEven(a.X[i][k], a.den * res)]]

-----------------------------------------------------------------------------
(* grid(): the call up to the relocation loop, and one loop iteration *)

\* the points a generator may produce for the lattice specification
GridPoints == {<<x, 0, z>> : x \in 0..2, z \in 0..1}

GridClouds == UNION {[1..n -> GridPoints] : n \in 1..MaxGridLen}

\* a centre cell occupied twice inside a fully occupied 3x3x3 block
BlockCloud ==
    LET offs == outer_layer_of_cube(1)
    IN  <<<<0, 0, 0>>, <<0, 0, 0>>>> \o offs

\* one cell occupied three times, next to an occupied cell
TripleCloud == <<<<1, 1, 1>>, <<1, 1, 1>>, <<1, 1, 1>>, <<0, 0, 1>>>>

\* the clouds and grid_res of the generators the lattice specification starts from
GridGenerators ==
    (GridClouds \X {1, 2}) \cup {<<BlockCloud, 1>>, <<TripleCloud, 1>>}

GridResArgs == {<<>>, <<1>>, <<3>>}

Tolerances == {<<1, 1000>>, <<2, 1>>}

\* the locals of generate_aggregate and of add_rime_particles before a call
NoPair == [N |-> 0, align |-> FALSE, i |-> 0, j |-> 0, top |-> 0, btm |-> 0]

NoRime == [N |-> 0, pen_depth |-> 0, compact_dist |-> <<0, 1>>,
           x0 |-> 0, x1 |-> 0, y0 |-> 0, y1 |-> 0,
           items |-> <<>>, items_3d |-> <<>>, added_particles |-> <<>>,
           site |-> <<>>, X_near |-> <<>>]

\* no member function has been called yet; n counts the calls (saturates)
NoLast == [name |-> "none", update |-> TRUE, args |-> <<>>, out |-> <<"none">>,
           n |-> 0]

\* compact_rime() before a call; rationals are pairs <<numerator, denominator>>
NoCompact == [pc |-> "idle", X |-> <<0, 0, 0>>, X_old |-> <<0, 0, 0>>,
              X_near |-> <<>>, den |-> 1, max_dist |-> <<0, 1>>,
              min_move |-> <<1, 100>>, dr |-> <<1, 10>>, max_iters |-> 0,
              it |-> 0, clamped |-> FALSE]

\* no operation has been called yet
NoOperation ==
    /\ gcall = <<>>
    /\ Xc = <<>>
    /\ Xc_overlap = <<>>
    /\ gi = 0
    /\ cube_rad = 0
    /\ tried = 0
    /\ gpc = "idle"
    /\ gout = <<"none">>
    /\ call = NoCall
    /\ pc = "idle"
    /\ attempts = 0
    /\ loc = NoLoc
    /\ result = "none"
    /\ pool = <<>>
    /\ bsel = NoPair
    /\ bpc = "idle"
    /\ bout = "none"
    /\ rloc = NoRime
    /\ rpc = "idle"
    /\ lastop = NoLast
    /\ cloc = NoCompact

GridInit ==
    /\ \E gen \in GridGenerators : agg = NewAggregate(gen[1], 0, gen[2])
    /\ pre = agg
    /\ NoOperation

\* remove_elements(removed_elements, tolerance) called by the user
OpRemoveElements(removed_elements, tol) ==
    /\ gpc = "idle"
    /\ Len(agg.X) > 0
    /\ agg' = remove_elements(agg, removed_elements, tol, TRUE)
    /\ pre' = agg'
    /\ UNCHANGED <<gridVars, callVars, buildVars, rimeVars, opVars>>

\* grid(res) from its first line to the first pass of the relocation loop
GridCall(resArg) ==
    /\ gpc = "idle"
    /\ LET res == IF resArg = <<>> THEN agg.grid_res ELSE resArg[1]
           N == Len(agg.X)
           sorted == lexsort_rows(RoundedCells(agg, res))
           overlap == [i \in 1..Max2(N, 1) |->
                          IF i < N THEN sorted[i] = sorted[i + 1] ELSE FALSE]
       IN  /\ gcall' = <<res>>
           /\ IF Len(overlap) # N
              THEN \* boolean index of the wrong length
                   /\ gout' = <<"IndexError">>
                   /\ gpc' = "done"
                   /\ UNCHANGED <<Xc, Xc_overlap, gi, cube_rad, tried>>
              ELSE LET dup == SelectRows(sorted, overlap)
                       kept == SelectRows(sorted, [i \in 1..N |-> ~overlap[i]])
                   IN  /\ Xc_overlap' \in Shuffles(dup)
                       /\ Xc' = kept
                       /\ gi' = 0
                       /\ cube_rad' = IF dup = <<>> THEN cube_rad ELSE 1
                       /\ tried' = 0
                       /\ IF dup = <<>>
                          THEN gpc' = "done" /\ gout' = <<"array", kept>>
                          ELSE gpc' = "relocate" /\ gout' = gout
    /\ UNCHANGED <<agg, pre, callVars, buildVars, rimeVars, opVars>>

\* the cell X found by the shell search is inserted and the loop over
\* Xc_overlap moves on; the last pass returns Xc
RelocateTo(newXc, yielded) ==
    /\ Xc' = newXc
    /\ gi' = gi + 1
    /\ IF gi + 1 = Len(Xc_overlap)
       THEN /\ gpc' = "done"
            /\ gout' = <<"array", newXc>>
            /\ cube_rad' = cube_rad
            /\ tried' = Min2(tried + yielded, MaxCandidates)
       ELSE /\ gpc' = "relocate"
            /\ gout' = gout
            /\ cube_rad' = 1
            /\ tried' = 0

\* what the loop body does with one shell of the generator
AfterShell(Xm, layer, found) ==
    IF found # <<>>
    THEN RelocateTo(insert_missing_row_in_sorted_array(
                        shell_cell(Xm, layer, found[1]), Xc), found[1])
    ELSE /\ cube_rad' = next_cube_rad(cube_rad)
         /\ tried' = Min2(tried + Len(layer), MaxCandidates)
         /\ UNCHANGED <<Xc, gi, gpc, gout>>

\* the shell search over one shell of the generator, for one duplicate
SearchShell(Xm, layer) == AfterShell(Xm, layer, first_free_in_shell(Xm, Xc, layer))

\* "for dX in neighbors_by_distance()" over one shell, for the duplicate
\* Xm = Xc_overlap[i, :] of "for i in xrange(Xc_overlap.shape[0])"
GridRelocate ==
    /\ gpc = "relocate"
    /\ tried < MaxCandidates
    /\ SearchShell(Xc_overlap[gi + 1], outer_layer_of_cube(cube_rad))
    /\ UNCHANGED <<agg, pre, gcall, Xc_overlap, callVars, buildVars, rimeVars, opVars>>

GridNext ==
    \/ \E re \in GridPoints, tol \in Tolerances : OpRemoveElements(<<re>>, tol)
    \/ \E resArg \in GridResArgs : GridCall(resArg)
    \/ GridRelocate

SpecGrid == GridInit /\ [][GridNext]_vars

-----------------------------------------------------------------------------
(* add_particle(): one call, one pass of the placement loop per step *)

\* the first assertion alone
MassFractionOK_NoUpperBound(mf) == mf > 1

\* lines 346-347: the two assertions on pen_depth_by_mass_fraction
MassFractionOK(mf) == mf > 1 /\ mf <= 100

\* the common denominator of the aggregate's and the particle's coordinates
CommonDen(a, c) == a.den * c.pden

\* x, y, z = particle[imask].T over the common denominator (lines 349-350)
MaskedParticle(a, c) ==
    SelectRows(Scaled(c.particle, a.den),
               pen_depth_intersection_mask(c.particle, c.pden, c.pen_depth, c.mf))

\* limits that start two contact radii further out
ShiftLimits_Wide(a, c, xyz, extent) ==
    [xyz |-> xyz,
     x0 |-> a.extent[1][1] * c.pden - extent[1][2] - 2 * a.grid_res * CommonDen(a, c),
     x1 |-> a.extent[1][2] * c.pden - extent[1][1],
     y0 |-> a.extent[2][1] * c.pden - extent[2][2] - 2 * a.grid_res * CommonDen(a, c),
     y1 |-> a.extent[2][2] * c.pden - extent[2][1],
     site_found |-> FALSE, x_shift |-> 0, y_shift |-> 0, min_z_sep |-> <<>>]

\* x0, x1, y0, y1: limits for the random positioning of the other particle,
\* from the extent of the masked particle (lines 351-357)
ShiftLimits(a, c, xyz, extent) ==
    [xyz |-> xyz,
     x0 |-> a.extent[1][1] * c.pden - extent[1][2],
     x1 |-> a.extent[1][2] * c.pden - extent[1][1],
     y0 |-> a.extent[2][1] * c.pden - extent[2][2],
     y1 |-> a.extent[2][2] * c.pden - extent[2][1],
     site_found |-> FALSE, x_shift |-> 0, y_shift |-> 0, min_z_sep |-> <<>>]

\* lines 342-359: the locals at the head of the placement loop
LoopHead(a, c, xyz) == ShiftLimits(a, c, xyz, ExtentOf(xyz))

\* the numerators of lo + rand()*(hi - lo), rand() in [0, 1)
Draws(lo, hi) == IF hi > lo THEN lo..(hi - 1) ELSE {lo}

\* rows moved by (dx, dy, dz)
Shifted(P, dx, dy, dz) ==
    [i \in DOMAIN P |-> <<P[i][1] + dx, P[i][2] + dy, P[i][3] + dz>>]

\* lines 369-373, S being xs, ys, z and R the scaled grid_res
overlapping_range(a, c, S, R) ==
    <<Max2(SeqMin(Col(S, 1)), a.extent[1][1] * c.pden) - R,
      Min2(SeqMax(Col(S, 1)), a.extent[1][2] * c.pden) + R,
      Max2(SeqMin(Col(S, 2)), a.extent[2][1] * c.pden) - R,
      Min2(SeqMax(Col(S, 2)), a.extent[2][2] * c.pden) + R>>

\* X_filter & imask (lines 386-391, 399-403)
X_filter(rows, r, imask) ==
    [i \in DOMAIN rows |-> /\ rows[i][1] >= r[1]
                           /\ rows[i][1] < r[2]
                           /\ rows[i][2] >= r[3]
                           /\ rows[i][2] < r[4]
                           /\ imask[i]]

\* lines 375-405: the overlap window r and the candidates of both clouds
Candidates(a, c, S, r) ==
    [no_overlap |-> r[1] >= r[2] \/ r[3] >= r[4],
     overlapping_X |->
         SelectRows(Scaled(a.X, c.pden),
                    X_filter(Scaled(a.X, c.pden), r,
                             pen_depth_intersection_mask(a.X, a.den, c.pen_depth, c.mf))),
     overlapping_Xp |->
         SelectRows(S, X_filter(S, r, [i \in DOMAIN S |-> TRUE]))]

\* lines 421-472: the two point sets handed to find_min_distance
CollisionSets(c, R, cand) ==
    IF c.maxheight = "default"
    THEN [pc1 |-> max_height_per_bin(cand.overlapping_X, R, TRUE),
          pc2 |-> max_height_per_bin(cand.overlapping_Xp, R, FALSE)]
    ELSE [pc1 |-> cand.overlapping_X, pc2 |-> cand.overlapping_Xp]

\* the candidates and the collision sets of one pass
PassSets(a, c, S, R) ==
    CollisionSets(c, R, Candidates(a, c, S, overlapping_range(a, c, S, R)))

\* every root min_z_separation takes between pc1 and pc2 is the root of a square
RootsOfSquares(pc1, pc2, R) ==
    \A i \in DOMAIN pc1, j \in DOMAIN pc2 :
        (Sq(pc1[i][1] - pc2[j][1]) + Sq(pc1[i][2] - pc2[j][2]) < R * R)
            => IsSquare(R * R - Sq(pc1[i][1] - pc2[j][1]) - Sq(pc1[i][2] - pc2[j][2]))

ExactRoots(a, c, l, x_shift, y_shift) ==
    LET sets == PassSets(a, c, Shifted(l.xyz, x_shift, y_shift, 0),
                         a.grid_res * CommonDen(a, c))
    IN  RootsOfSquares(sets.pc1, sets.pc2, a.grid_res * CommonDen(a, c))

\* lines 375-396, 474-477: what a pass leaves in the locals; x_shift and
\* y_shift are read again only after a pass that found a site (lines 484-486)
PassOutcome(l, x_shift, y_shift, cand, min_z_sep) ==
    IF cand.no_overlap \/ Len(cand.overlapping_X) = 0 \/ min_z_sep = <<>>
    THEN l
    ELSE [l EXCEPT !.x_shift = x_shift, !.y_shift = y_shift,
                   !.site_found = TRUE, !.min_z_sep = min_z_sep]

PassOver(c, l, x_shift, y_shift, R, cand) ==
    PassOutcome(l, x_shift, y_shift, cand,
                find_min_distance(CollisionSets(c, R, cand).pc1,
                                  CollisionSets(c, R, cand).pc2, R))

PassInRange(a, c, l, x_shift, y_shift, S, R) ==
    PassOver(c, l, x_shift, y_shift, R,
             Candidates(a, c, S, overlapping_range(a, c, S, R)))

\* one pass of "while not site_found" (lines 361-477): the locals after it
PlacementPass(a, c, l, x_shift, y_shift) ==
    PassInRange(a, c, l, x_shift, y_shift,
                Shifted(l.xyz, x_shift, y_shift, 0), a.grid_res * CommonDen(a, c))

\* a loop left only on success, and a loop left after every pass
LoopExits_OnSuccess(site_found, required) == site_found

LoopExits_Always(site_found, required) == TRUE

\* whether the while loop is left after a pass (lines 360, 379-382, 393-396, 478)
LoopExits(site_found, required) == site_found \/ ~required

\* the particle moved in x and y only
ShiftedParticle_Level(a, c, l) ==
    Shifted(Scaled(c.particle, a.den), l.x_shift, l.y_shift, 0)

\* lines 483-486: the particle moved to its place, over the common denominator
ShiftedParticle(a, c, l) ==
    Shifted(Scaled(c.particle, a.den), l.x_shift, l.y_shift,
            IF c.mf < 100 THEN l.min_z_sep[1]
            ELSE l.min_z_sep[1] + c.pen_depth * CommonDen(a, c))

OptLeaf(v) == IF v = <<>> THEN <<"none">> ELSE <<"leaf", v[1]>>

\* lines 488-493: add_elements, then the bookkeeping of the merge; the sum
\* self.monomer_number += None raises after add_elements has run
Bookkeeping(a, c, a1) ==
    IF c.addN = <<>> THEN a1
    ELSE [a1 EXCEPT !.monomer_number = a.monomer_number + c.addN[1],
                    !.id_tree = <<"merge", a.id_tree, OptLeaf(c.branch)>>,
                    !.mono_type = <<"merge", a.mono_type, OptLeaf(c.mono)>>]

\* lines 481-495 when site_found: the aggregate after the call
Merged(a, c, l) ==
    Bookkeeping(a, c, add_elements(a, ShiftedParticle(a, c, l), CommonDen(a, c),
                                   IF c.ident = <<>> THEN 0 ELSE c.ident[1], TRUE))

\* what the call gives back when a site was found
MergeOutcome(c) == IF c.addN = <<>> THEN "TypeError" ELSE "True"

\* the clouds the monomer generator produces (grid_res 5)
MergeAggClouds ==
    { <<<<0, 0, 0>>>>,
      <<<<0, 0, 0>>, <<0, 3, 4>>, <<10, 0, 0>>>>,
      <<<<0, 0, 0>>, <<5, 0, 0>>, <<17, 0, 0>>>> }

MergeParticles ==
    { <<<<0, 0, 0>>>>,
      <<<<0, 7, 7>>, <<10, 0, 0>>>>,
      <<<<0, 0, 0>>, <<5, 0, 0>>, <<17, 0, 0>>>> }

MergeGridRes == {5}

PenDepths == {0, 5}

MassFractions == {1, 50, 100, 101}

\* add_particle's arguments; a call without particle draws one from the generator
\* and sets add_N_monomers = 1, add_id_branch = -9999 (lines 338-341)
MergeCalls ==
    { [particle |-> P, pden |-> 1, generated |-> g, ident |-> <<>>,
       required |-> r, pen_depth |-> pd, mf |-> mf,
       addN |-> IF g THEN <<1>> ELSE n,
       branch |-> IF g THEN <<-9999>> ELSE <<>>,
       mono |-> <<>>, maxheight |-> h] :
        P \in MergeParticles, g \in BOOLEAN, r \in BOOLEAN, pd \in PenDepths,
        mf \in MassFractions, n \in {<<>>, <<2>>}, h \in {"default", "off"} }

MergeInit ==
    /\ \E cloud \in MergeAggClouds, g \in MergeGridRes : agg = NewAggregate(cloud, 0, g)
    /\ pre = agg
    /\ NoOperation

\* add_particle(...) from its first line to the head of the placement loop
CallAddParticle(c) ==
    /\ pc = "idle"
    /\ call' = c
    /\ pre' = agg
    /\ attempts' = 0
    /\ IF MassFractionOK(c.mf)
       THEN /\ pc' = "loop"
            /\ result' = "none"
            /\ loc' = LoopHead(agg, c, MaskedParticle(agg, c))
       ELSE /\ pc' = "done"
            /\ result' = "AssertionError"
            /\ loc' = NoLoc
    /\ UNCHANGED <<agg, gridVars, buildVars, rimeVars, opVars>>

\* the end of the call once the loop is left with the locals l
AddParticleReturn(l) ==
    /\ loc' = l
    /\ IF LoopExits(l.site_found, call.required)
       THEN /\ pc' = "done"
            /\ IF l.site_found
               THEN /\ agg' = Merged(agg, call, l)
                    /\ result' = MergeOutcome(call)
               ELSE /\ agg' = agg
                    /\ result' = "False"
       ELSE /\ pc' = "loop"
            /\ agg' = agg
            /\ result' = result

\* one pass of the placement loop and, when the loop is left, the rest of the call
Attempt(x_shift, y_shift) ==
    /\ pc = "loop"
    /\ x_shift \in Draws(loc.x0, loc.x1)
    /\ y_shift \in Draws(loc.y0, loc.y1)
    /\ ExactRoots(agg, call, loc, x_shift, y_shift) = TRUE
    /\ attempts' = Min2(attempts + 1, MaxAttempts)
    /\ AddParticleReturn(PlacementPass(agg, call, loc, x_shift, y_shift))
    /\ UNCHANGED <<pre, call, gridVars, buildVars, rimeVars, opVars>>

MergeNext ==
    \/ \E c \in MergeCalls : CallAddParticle(c)
    \/ \E x_shift \in Draws(loc.x0, loc.x1), y_shift \in Draws(loc.y0, loc.y1) :
           Attempt(x_shift, y_shift)

SpecMerge == MergeInit /\ [][MergeNext]_vars

-----------------------------------------------------------------------------
(* rotate(), align() and generate_aggregate() (tripfreq_runs.py) *)

\* most monomers handed to one generate_aggregate call
MaxMonomers == 5

\* the rotations the rotators draw from: lattice rotations, which keep the
\* coordinates exact (identity, a quarter turn about z, a quarter turn about y)
Rotations ==
    { <<<<1, 0, 0>>, <<0, 1, 0>>, <<0, 0, 1>>>>,
      <<<<0, -1, 0>>, <<1, 0, 0>>, <<0, 0, 1>>>>,
      <<<<0, 0, 1>>, <<0, 1, 0>>, <<-1, 0, 0>>>> }

\* the matrix M applied to the column vector p, and the row vector p times M
MatVec(M, p) == [k \in 1..3 |-> M[k][1] * p[1] + M[k][2] * p[2] + M[k][3] * p[3]]

VecMat(p, M) == [k \in 1..3 |-> p[1] * M[1][k] + p[2] * M[2][k] + p[3] * M[3][k]]

\* self.X = ...; self.update_extent()
WithCloud(a, X, den) == update_extent([a EXCEPT !.X = X, !.den = den])

\* the recentred cloud c turned by M
Turned(a, M, c) == WithCloud(a, [i \in DOMAIN c.X |-> MatVec(M, c.X[i])], c.den)

\* Aggregate.rotate(rotator), M being the rotation the rotator applies
rotate(a, M) == Turned(a, M, Recentred(a.X, a.den))

\* Aggregate.align(), PA being the normalised principal axes
align(a, PA) == WithCloud(a, [i \in DOMAIN a.X |-> VecMat(a.X[i], PA)], a.den)

\* lines 75-80 of generate_aggregate on the last aggregate of the pool
Finished(a, al, PA, r1, r2) ==
    rotate(IF al THEN rotate(align(a, PA), r1) ELSE a, r2)

\* 4*den*r for r of line 49: the x span plus the y span
SpanSum(a) ==
    (a.extent[1][2] - a.extent[1][1]) + (a.extent[2][2] - a.extent[2][1])

\* m_r of line 50 is sqrt(MrRadicand)/SpanSum when the spans are not both 0
MrRadicand(a) == Len(a.X) * 4 * a.den * SpanSum(a)

\* m_r[i] > m_r[j]
MrGreater(a, b) ==
    Sqrt(MrRadicand(a)) * SpanSum(b) > Sqrt(MrRadicand(b)) * SpanSum(a)

\* p_mat[i][j] before normalisation (lines 51-53) as <<numerator, denominator>>
Weight(a, b) ==
    << Sq(SpanSum(a) * b.den + SpanSum(b) * a.den)
         * Abs(Sqrt(MrRadicand(a)) * SpanSum(b) - Sqrt(MrRadicand(b)) * SpanSum(a)),
       Sq(4 * a.den * b.den) * SpanSum(a) * SpanSum(b) >>

\* the square roots of line 50 are roots of squares
ExactWeights(p) ==
    \A k \in DOMAIN p : SpanSum(p[k]) > 0 => IsSquare(MrRadicand(p[k]))

\* p_mat holds numbers: no r is 0 (else m_r is inf and p_mat nan) and the
\* weights are not all 0 (else line 54 divides 0 by 0)
WeightsAreNumbers(p) ==
    /\ \A k \in DOMAIN p : SpanSum(p[k]) > 0
    /\ \E k, l \in DOMAIN p : Weight(p[k], p[l])[1] > 0

\* p_mat[i][j] is the largest weight, 1 after line 54
IsLargestWeight(p, i, j) ==
    \A k, l \in DOMAIN p :
        Weight(p[k], p[l])[1] * Weight(p[i], p[j])[2]
            <= Weight(p[i], p[j])[1] * Weight(p[k], p[l])[2]

\* rnd < p_mat[i][j] can be true, can be false, for rnd in [0, 1)
MayAccept(p, i, j) == WeightsAreNumbers(p) /\ Weight(p[i], p[j])[1] > 0

MayReject(p, i, j) == WeightsAreNumbers(p) => ~IsLargestWeight(p, i, j)

\* the monomer clouds of the generators handed to generate_aggregate
BuildClouds ==
    { <<<<0, 0, 0>>, <<8, 0, 0>>>>,
      <<<<0, 0, 0>>, <<2, 0, 0>>>>,
      <<<<0, 0, 0>>>> }

\* grid_res of the monomers, and pen_depth=80e-6 of line 66 (four times the
\* grid_res 0.02e-3 of gen_monomer) in the same unit
BuildGridRes == 5

BuildPenDepth == 20

\* the aggregate variable while no aggregate is operated on
NoAggregate == NewAggregate(<<>>, 0, BuildGridRes)

\* agg = [monomer_generator() for i in xrange(N)]
Monomers(clouds) ==
    [k \in DOMAIN clouds |-> NewAggregate(clouds[k], 0, BuildGridRes)]

\* the arguments of line 66
BuildMergeCall(btm) ==
    [particle |-> btm.X, pden |-> btm.den, generated |-> FALSE, ident |-> <<>>,
     required |-> TRUE, pen_depth |-> BuildPenDepth, mf |-> 100, addN |-> <<>>,
     branch |-> <<>>, mono |-> <<>>, maxheight |-> "default"]

BuildInit ==
    /\ agg = NoAggregate
    /\ pre = agg
    /\ NoOperation

\* lines 75-80: the last aggregate is oriented and returned; agg[0] of an
\* empty list raises IndexError
ReturnFrom(p) ==
    /\ bpc' = "done"
    /\ IF Len(p) = 0
       THEN pool' = p /\ bout' = "IndexError"
       ELSE /\ bout' = "returned"
            /\ \E PA \in Rotations, r1 \in Rotations, r2 \in Rotations :
                   pool' = <<Finished(p[1], bsel'.align, PA, r1, r2)>>

\* generate_aggregate(monomer_generator, N, align) down to the first draw of a pair
BuildCall(N, al, clouds) ==
    /\ bpc = "idle"
    /\ ExactWeights(Monomers(clouds))
    /\ bsel' = [NoPair EXCEPT !.N = N, !.align = al]
    /\ IF N > 1
       THEN pool' = Monomers(clouds) /\ bpc' = "pick" /\ bout' = "none"
       ELSE ReturnFrom(Monomers(clouds))
    /\ UNCHANGED <<agg, pre, gridVars, callVars, rimeVars, opVars>>

\* lines 63-66: agg_btm is rotated and add_particle is entered on agg_top
StartMerge(i, j, top, btm, rotated) ==
    /\ bsel' = [bsel EXCEPT !.i = i, !.j = j, !.top = top, !.btm = btm]
    /\ pool' = [pool EXCEPT ![btm] = rotated]
    /\ bpc' = "merge"
    /\ agg' = pool[top]
    /\ pre' = pool[top]
    /\ call' = BuildMergeCall(rotated)
    /\ pc' = "loop"
    /\ attempts' = 0
    /\ result' = "none"
    /\ loc' = LoopHead(pool[top], BuildMergeCall(rotated),
                       MaskedParticle(pool[top], BuildMergeCall(rotated)))
    /\ UNCHANGED <<bout, gridVars, rimeVars, opVars>>

\* one pass of "while not collision" (lines 56-66): a pair is drawn and taken
\* or not
BuildPick(i, j, accepted, M) ==
    /\ bpc = "pick"
    /\ IF accepted
       THEN /\ MayAccept(pool, i, j)
            /\ IF MrGreater(pool[i], pool[j])
               THEN StartMerge(i, j, i, j, rotate(pool[j], M))
               ELSE StartMerge(i, j, j, i, rotate(pool[i], M))
       ELSE /\ MayReject(pool, i, j)
            /\ UNCHANGED vars

\* lines 67-73 once add_particle has ended, and the loop heads after them
BuildMerged ==
    /\ bpc = "merge"
    /\ pc = "done"
    /\ IF result = "True"
       THEN /\ pc' = "idle"
            /\ \E PA \in Rotations, r1 \in Rotations :
                 LET survivor == IF bsel.align THEN rotate(align(agg, PA), r1)
                                 ELSE rotate(agg, r1)
                     rest == RemoveAt([pool EXCEPT ![bsel.top] = survivor], bsel.btm)
                 IN  IF Len(rest) > 1
                     THEN pool' = rest /\ bpc' = "pick" /\ bout' = bout
                     ELSE ReturnFrom(rest)
       ELSE /\ pool' = [pool EXCEPT ![bsel.top] = agg]
            /\ bpc' = "done"
            /\ bout' = result
            /\ pc' = pc
    /\ UNCHANGED <<agg, pre, bsel, call, attempts, loc, result, gridVars, rimeVars, opVars>>

BuildNext ==
    \/ \E N \in 0..MaxMonomers, al \in BOOLEAN :
           \E clouds \in [1..N -> BuildClouds] : BuildCall(N, al, clouds)
    \/ \E i \in DOMAIN pool, j \in DOMAIN pool, accepted \in BOOLEAN, M \in Rotations :
           BuildPick(i, j, accepted, M)
    \/ \E x_shift \in Draws(loc.x0, loc.x1), y_shift \in Draws(loc.y0, loc.y1) :
           Attempt(x_shift, y_shift)
    \/ BuildMerged

SpecBuild == BuildInit /\ [][BuildNext]_vars

-----------------------------------------------------------------------------
(* compact_rime(): the passes of the relaxation of a rime point among its    *)
(* neighbours.  Coordinates are numerators over den; G is grid_res over that *)
(* denominator.                                                              *)

\* max_iters of compact_rime
MAX_ITERS == 100

\* the sum of two rationals, in lowest terms
FracAdd(p, q) ==
    [k \in 1..2 |-> (IF k = 1 THEN p[1] * q[2] + q[1] * p[2] ELSE p[2] * q[2])
                       \div Gcd(p[1] * q[2] + q[1] * p[2], p[2] * q[2])]

\* Fi added within the contact radius and subtracted beyond it
Fi_Reversed(dX, r, G, k) ==
    IF r * r > G * G THEN <<-(dX[k] * G * G), r * r * r>>
    ELSE IF 100 * r * r < G * G THEN <<0, 1>>
    ELSE <<dX[k] * G * G, r * r * r>>

\* lines 886-892: what the neighbour at dX = X_near[i] - X, at distance r,
\* adds to component k of F: Fi beyond the contact radius, nothing when nearly
\* coincident, -Fi otherwise, with Fi = dX / (sqrt(r_sqr) * r_sqr_norm)
Fi(dX, r, G, k) ==
    IF r * r > G * G THEN <<dX[k] * G * G, r * r * r>>
    ELSE IF 100 * r * r < G * G THEN <<0, 1>>
    ELSE <<-(dX[k] * G * G), r * r * r>>

\* lines 884-892: component k of F summed over the neighbours
RECURSIVE F_sum(_, _, _, _)
F_sum(X, X_near, G, k) ==
    IF X_near = <<>> THEN <<0, 1>>
    ELSE FracAdd(Fi([c \in 1..3 |-> Head(X_near)[c] - X[c]],
                    Sqrt(Dist2(Head(X_near), X)), G, k),
                 F_sum(X, Tail(X_near), G, k))

\* lines 894-899: F scaled by dr, cut to length dr, scaled by grid_res; a
\* force longer than 1 keeps only its direction, which is exact along an axis
step(F, G, dr) ==
    IF F[1][1] * F[1][1] * F[2][2] * F[2][2] * F[3][2] * F[3][2]
         + F[2][1] * F[2][1] * F[1][2] * F[1][2] * F[3][2] * F[3][2]
         + F[3][1] * F[3][1] * F[1][2] * F[1][2] * F[2][2] * F[2][2]
         > F[1][2] * F[1][2] * F[2][2] * F[2][2] * F[3][2] * F[3][2]
    THEN [k \in 1..3 |->
             IF F[k][1] > 0 THEN <<G * dr[1], dr[2]>>
             ELSE IF F[k][1] < 0 THEN <<-(G * dr[1]), dr[2]>>
             ELSE <<0, 1>>]
    ELSE [k \in 1..3 |-> <<G * dr[1] * F[k][1], dr[2] * F[k][2]>>]

\* the step is a whole number of units along one axis, or along none
ExactStep(st) ==
    /\ \A k \in 1..3 : st[k][1] % st[k][2] = 0
    /\ Cardinality({k \in 1..3 : st[k][1] # 0}) <= 1

\* lines 903-909 for the moved point Xn: the budget test as the code has it
\* (dist_sqr / grid_res**2 against (max_dist * grid_res)**2), the pull back
\* to max_dist * grid_res from X_old, the min_move test, the end of the loop
moved(l, Xn, g, dist_sqr, move_sqr) ==
    IF dist_sqr * l.max_dist[2] * l.max_dist[2]
         > l.max_dist[1] * l.max_dist[1] * g * g * g * g * l.den * l.den
    THEN [l EXCEPT !.pc = "done", !.clamped = TRUE, !.it = l.it + 1,
                   !.X = [k \in 1..3 |->
                             l.X_old[k]
                               + ((Xn[k] - l.X_old[k]) * l.max_dist[1] * g * l.den)
                                   \div (l.max_dist[2] * Sqrt(dist_sqr))]]
    ELSE [l EXCEPT !.X = Xn, !.it = l.it + 1,
                   !.pc = IF \/ move_sqr * l.min_move[2] * l.min_move[2]
                                  < l.min_move[1] * l.min_move[1] * g * g * l.den * l.den
                             \/ l.it + 1 >= l.max_iters
                          THEN "done" ELSE "loop"]

\* one pass of "for it in xrange(max_iters)" with the step st
iteration(l, g, st) ==
    moved(l, [k \in 1..3 |-> l.X[k] + st[k][1] \div st[k][2]], g,
          Dist2([k \in 1..3 |-> l.X[k] + st[k][1] \div st[k][2]], l.X_old),
          Sq(st[1][1] \div st[1][2]) + Sq(st[2][1] \div st[2][2])
            + Sq(st[3][1] \div st[3][2]))

\* where the step st takes the point
Landing(l, st) == [k \in 1..3 |-> l.X[k] + st[k][1] \div st[k][2]]

\* the pull back to the budget from Xn, if it is taken, ends on a numerator
ExactPull(l, Xn, g, dist_sqr) ==
    /\ IsSquare(dist_sqr)
    /\ \/ dist_sqr = 0
       \/ \A k \in 1..3 :
              ((Xn[k] - l.X_old[k]) * l.max_dist[1] * g * l.den)
                  % (l.max_dist[2] * Sqrt(dist_sqr)) = 0

\* every distance the pass takes a root of is the root of a square
ExactForces(X, X_near) == \A i \in DOMAIN X_near : IsSquare(Dist2(X_near[i], X))

\* compact_rime(X, X_near, max_dist) run to its return: <<"point", X>>, or
\* <<"inexact">> when a pass leaves the numerators
RECURSIVE compact_loop(_, _)
compact_pass(l, g, st) ==
    IF ExactStep(st) /\ ExactPull(l, Landing(l, st), g, Dist2(Landing(l, st), l.X_old))
    THEN compact_loop(iteration(l, g, st), g)
    ELSE <<"inexact">>

compact_loop(l, g) ==
    IF l.pc = "done" THEN <<"point", l.X>>
    ELSE IF ~ExactForces(l.X, l.X_near) THEN <<"inexact">>
    ELSE compact_pass(l, g, step([k \in 1..3 |-> F_sum(l.X, l.X_near, g * l.den, k)],
                                 g * l.den, l.dr))

\* lines 873-875: the locals of compact_rime at the head of its loop
CompactEntry(c) ==
    [c EXCEPT !.pc = IF c.max_dist[1] <= 0 \/ c.max_iters = 0
                     THEN "done" ELSE "loop"]

compact_rime(X, X_near, g, den, max_dist) ==
    compact_loop(CompactEntry([NoCompact EXCEPT !.X = X, !.X_old = X,
                                                !.X_near = X_near, !.den = den,
                                                !.max_dist = max_dist,
                                                !.max_iters = MAX_ITERS]), g)

-----------------------------------------------------------------------------
(* RimedAggregate.add_rime_particles() *)

\* most rime particles asked for in one call
MaxRime == 3

RIME_IDENT == -1

spheres_overlap(X0, X1, r_sqr) ==
    Sq(X1[1] - X0[1]) + Sq(X1[2] - X0[2]) + Sq(X1[3] - X0[3]) < r_sqr

\* bisect_left(a, v) on the sorted sequence a
bisect_left(a, v) == Cardinality({k \in DOMAIN a : a[k] < v})

\* rows[rows[:,2].argsort(), :], rows of equal z keeping their order
SortedByZ(rows) ==
    [k \in DOMAIN rows |->
        rows[CHOOSE i \in DOMAIN rows :
                 Cardinality({j \in DOMAIN rows :
                                 \/ rows[j][3] < rows[i][3]
                                 \/ (rows[j][3] = rows[i][3] /\ j < i)}) = k - 1]]

\* the filter of find_overlapping(x, y) on the rows the lookup gives
WithinReach(rows, xs, ys, R) ==
    SelectRows(rows, [i \in DOMAIN rows |->
                         Sq(rows[i][1] - xs) + Sq(rows[i][2] - ys) < R * R])

\* find_overlapping(x, y): through the index when N > 1, else over self.X
find_overlapping(items, use_indexing, xs, ys, R) ==
    IF use_indexing THEN WithinReach(items_near(items, <<xs, ys>>, R), xs, ys, R)
    ELSE WithinReach(items, xs, ys, R)

\* Index3D(elem_size).items_near(q, radius): the items whose bucket is within
\* radius / elem_size buckets of the query's bucket along every axis (a
\* superset of the points within radius)
items_near_3d(items, q, elem_size, radius) ==
    SelectRows(items,
               [i \in DOMAIN items |->
                   \A k \in 1..3 :
                       Abs(items[i][k] \div elem_size - q[k] \div elem_size)
                           <= radius \div elem_size])

\* the filter of find_overlapping_3d(x, y, z, dist_mul) on the rows given
WithinReach3d(rows, q, reach) ==
    SelectRows(rows, [i \in DOMAIN rows |-> Dist2(rows[i], q) < reach * reach])

\* find_overlapping_3d(x, y, z, dist_mul): through the 3-D index when N > 1,
\* else over self.X
find_overlapping_3d(items_3d, use_indexing, q, dist_mul, R) ==
    IF use_indexing
    THEN WithinReach3d(items_near_3d(items_3d, q, R, R * dist_mul), q, R * dist_mul)
    ELSE WithinReach3d(items_3d, q, R * dist_mul)

\* lines 822-836: some sphere other than i overlaps the site (xs, ys, zc)
SiteOverlaps(oX, i, xs, ys, zc, R) ==
    \E j \in bisect_left(Col(oX, 3), zc - R)..(bisect_left(Col(oX, 3), zc + R) - 1) :
        j # i /\ spheres_overlap(oX[j + 1], <<xs, ys, zc>>, R * R)

\* lines 811-839: the search down from row i (counted from 0) for a site;
\* <<"site", zc>>, <<"none">>, or <<"inexact">> when a root is not exact
RECURSIVE site_search(_, _, _, _, _)
TryHeights(oX, i, xs, ys, R, z_upper, z_lower) ==
    IF ~SiteOverlaps(oX, i, xs, ys, z_upper, R) THEN <<"site", z_upper>>
    ELSE IF i = 0 THEN <<"site", z_lower>>
    ELSE IF ~SiteOverlaps(oX, i, xs, ys, z_lower, R) THEN <<"site", z_lower>>
    ELSE site_search(oX, i - 1, xs, ys, R)

TryRow(oX, i, xs, ys, R, dz_sqr) ==
    IF ~IsSquare(dz_sqr) THEN <<"inexact">>
    ELSE TryHeights(oX, i, xs, ys, R,
                    oX[i + 1][3] + Sqrt(dz_sqr), oX[i + 1][3] - Sqrt(dz_sqr))

site_search(oX, i, xs, ys, R) ==
    IF i < 0 THEN <<"none">>
    ELSE TryRow(oX, i, xs, ys, R,
                R * R - Sq(oX[i + 1][1] - xs) - Sq(oX[i + 1][2] - ys))

\* lines 802-811 on the sorted rows within reach: last_ind, last_search_ind
SiteAmong(sorted, xs, ys, R, pd) ==
    IF Len(sorted) = 0 THEN <<"none">>
    ELSE site_search(
             SubSeq(sorted, 1,
                    Min2(bisect_left(Col(sorted, 3), sorted[1][3] + pd + R) + 1,
                         Len(sorted))),
             bisect_left(Col(sorted, 3), sorted[1][3] + pd) - 1, xs, ys, R)

\* one pass of "while not site_found" (lines 792-839)
RimePass(items, use_indexing, xs, ys, R, pd) ==
    SiteAmong(SortedByZ(find_overlapping(items, use_indexing, xs, ys, R)),
              xs, ys, R, pd)

\* lines 855-860: the extent grown in place to hold the point p
GrownExtent(extent, p) ==
    [k \in 1..3 |-> <<Min2(extent[k][1], p[k]), Max2(extent[k][2], p[k])>>]

\* for particle_num in xrange(N) has run out
AllDeposited_OneShort(count, N) == count >= N - 1

AllDeposited(count, N) == count >= N

\* the aggregates rime is added to, and the arguments
RimeClouds ==
    { <<<<0, 0, 0>>>>,
      <<<<0, 0, 0>>, <<7, 0, 0>>>>,
      <<<<-3, 0, 0>>, <<3, 0, 0>>>>,
      <<<<0, 0, 0>>, <<0, 0, 5>>>>,
      <<<<0, 0, 0>>, <<3, 4, 0>>, <<6, 8, 0>>>>,
      <<<<0, 4, 0>>, <<0, 0, 4>>, <<-4, 0, 12>>, <<2, 0, 13>>>> }

RimeGridRes == {5}

RimePenDepths == {0, 5, 30}

RimeInit ==
    /\ \E cloud \in RimeClouds, g \in RimeGridRes : agg = NewAggregate(cloud, 0, g)
    /\ pre = agg
    /\ NoOperation

\* line 867: self.add_elements(added_particles, ident=self.RIME_IDENT)
RimeCommit(a, locals) ==
    /\ rloc' = locals
    /\ IF AllDeposited(Len(locals.added_particles), locals.N)
       THEN /\ rpc' = "done"
            /\ agg' = add_elements(a, locals.added_particles, a.den, RIME_IDENT, TRUE)
       ELSE /\ rpc' = "place"
            /\ agg' = a

\* add_rime_particles(N, pen_depth, compact_dist) down to the first draw:
\* the 2-D index and, for compact_dist > 0, the 3-D index are filled from
\* self.X (lines 759-761, 776-778)
RimeCallCompact(N, pen_depth, compact_dist) ==
    /\ rpc = "idle"
    /\ pre' = agg
    /\ RimeCommit(agg, [NoRime EXCEPT
                            !.N = N, !.pen_depth = pen_depth,
                            !.compact_dist = compact_dist,
                            !.x0 = agg.extent[1][1], !.x1 = agg.extent[1][2],
                            !.y0 = agg.extent[2][1], !.y1 = agg.extent[2][2],
                            !.items = agg.X,
                            !.items_3d = IF compact_dist[1] > 0 THEN agg.X ELSE <<>>])
    /\ UNCHANGED <<gridVars, callVars, buildVars, opVars>>

\* add_rime_particles(N, pen_depth), compact_dist at its default 0
RimeCall(N, pen_depth) == RimeCallCompact(N, pen_depth, <<0, 1>>)

\* lines 852-862: the point p is committed for the site with the
\* neighbourhood X_near; the 2-D index alone takes the new point
Deposited(p, site, X_near) ==
    RimeCommit([agg EXCEPT !.extent = GrownExtent(agg.extent, p)],
               [rloc EXCEPT !.added_particles = Append(rloc.added_particles, p),
                            !.items = IF rloc.N > 1 THEN Append(rloc.items, p)
                                      ELSE rloc.items,
                            !.site = site, !.X_near = X_near])

\* lines 848-850: the point compact_rime returns is the one committed
Relaxed(site, X_near, out) ==
    /\ out[1] = "point"
    /\ Deposited(out[2], site, X_near)

\* lines 845-850: compact_rime is called when a neighbour was found
Compacted(site, X_near) ==
    IF X_near = <<>> THEN Deposited(site, site, X_near)
    ELSE Relaxed(site, X_near,
                 compact_rime(site, X_near, agg.grid_res, agg.den, rloc.compact_dist))

\* lines 841-862: the site is taken
SiteTaken(site) ==
    IF rloc.compact_dist[1] > 0
    THEN Compacted(site, find_overlapping_3d(rloc.items_3d, rloc.N > 1, site, 2,
                                             agg.grid_res * agg.den))
    ELSE Deposited(site, site, <<>>)

\* what a pass with the site search outcome site does
AfterPass(xs, ys, site) ==
    /\ site[1] # "inexact"
    /\ IF site[1] = "site" THEN SiteTaken(<<xs, ys, site[2]>>)
       ELSE UNCHANGED <<agg, rloc, rpc>>

\* one pass of the placement loop of the particle in hand
RimeDeposit(xs, ys) ==
    /\ rpc = "place"
    /\ xs \in Draws(rloc.x0, rloc.x1)
    /\ ys \in Draws(rloc.y0, rloc.y1)
    /\ AfterPass(xs, ys, RimePass(rloc.items, rloc.N > 1, xs, ys,
                                  agg.grid_res * agg.den, rloc.pen_depth * agg.den))
    /\ UNCHANGED <<pre, gridVars, callVars, buildVars, opVars>>

RimeNext ==
    \/ \E N \in 0..MaxRime, pen_depth \in RimePenDepths : RimeCall(N, pen_depth)
    \/ \E xs \in Draws(rloc.x0, rloc.x1), ys \in Draws(rloc.y0, rloc.y1) :
           RimeDeposit(xs, ys)

SpecRime == RimeInit /\ [][RimeNext]_vars

\* the aggregates rime is added to with compaction: numerators over 20, so
\* that a step of dr * grid_res and the budget are whole numerators
RimeCompactDens == {20}

RimeCompactClouds ==
    { <<<<0, 0, 0>>>>,
      <<<<0, 0, 0>>, <<0, 0, 300>>>>,
      <<<<0, 0, 0>>, <<60, 0, 0>>>> }

CompactDists == {<<0, 1>>, <<1, 100>>}

RimeCompactInit ==
    /\ \E cloud \in RimeCompactClouds, g \in RimeGridRes, den \in RimeCompactDens :
           agg = [NewAggregate(cloud, 0, g) EXCEPT !.den = den]
    /\ pre = agg
    /\ NoOperation

RimeCompactNext ==
    \/ \E N \in 0..MaxRime, pen_depth \in RimePenDepths, compact_dist \in CompactDists :
           RimeCallCompact(N, pen_depth, compact_dist)
    \/ \E xs \in Draws(rloc.x0, rloc.x1), ys \in Draws(rloc.y0, rloc.y1) :
           RimeDeposit(xs, ys)

SpecRimeCompact == RimeCompactInit /\ [][RimeCompactNext]_vars

-----------------------------------------------------------------------------
(* Member functions called one after another on one aggregate *)

\* most calls made on one aggregate
MaxOps == 3

\* the axis selectors project_on_dim has a branch for
valid_dim_UpTo3(dim) == dim \in 0..3

valid_dim(dim) == dim \in {0, 1, 2}

\* xp.round(), yp.round() of lines 169-185: the pixels of the elements, u and
\* v being the columns of X the branch of dim reads
pixels(a, u, v) ==
    {<<RoundHalfEven(a.X[i][u] - a.extent[u][1], a.den * a.grid_res),
       RoundHalfEven(a.X[i][v] - a.extent[v][1], a.den * a.grid_res)>> :
        i \in DOMAIN a.X}

\* the try block of project_on_dim (lines 166-185) on the aggregate a
projection(a, dim) ==
    IF ~valid_dim(dim) THEN <<"AttributeError">>
    ELSE IF Len(a.X) = 0 THEN <<"ValueError">>
    ELSE <<"array", pixels(a, IF dim = 0 THEN 2 ELSE 1, IF dim = 2 THEN 2 ELSE 3)>>

\* self.X = self.X.dot(R); self.update_extent()
dot(a, R) == WithCloud(a, [i \in DOMAIN a.X |-> VecMat(a.X[i], R)], a.den)

\* project_on_dim(dim, direction), direction being <<>> for None and <<R>>
\* for a viewpoint whose rotation matrix is R: the aggregate left behind and
\* what the call returned or raised
project_on_dim(a, dim, direction) ==
    IF direction = <<>> THEN [agg |-> a, out |-> projection(a, dim)]
    ELSE [agg |-> dot(dot(a, direction[1]),
                      [i \in 1..3 |-> [j \in 1..3 |-> direction[1][j][i]]]),
          out |-> projection(dot(a, direction[1]), 0)]

\* the aggregates the calls are made on, and their arguments
OpsClouds ==
    { <<<<0, 0, 0>>>>,
      <<<<0, 0, 0>>, <<2, 0, 0>>>>,
      <<<<1, 0, 0>>, <<0, 1, 0>>, <<1, 1, 1>>>> }

\* the coordinates handed to add_elements and remove_elements
OpsPoints == {<<0, 0, 0>>, <<1, 1, 0>>}

OpsInit ==
    /\ \E cloud \in OpsClouds : agg = NewAggregate(cloud, 0, 1)
    /\ pre = agg
    /\ NoOperation

\* a member function called by the user has run to its end on the aggregate a
Completed(a, name, update, args, out) ==
    /\ lastop.n < MaxOps
    /\ pre' = agg
    /\ agg' = a
    /\ lastop' = [name |-> name, update |-> update, args |-> args, out |-> out,
                  n |-> lastop.n + 1]
    /\ UNCHANGED <<gridVars, callVars, buildVars, rimeVars, cloc>>

OpAddElements(added_elements, update) ==
    Completed(add_elements(agg, added_elements, 1, 1, update),
              "add_elements", update, <<added_elements>>, <<"returned">>)

OpRemove(removed_elements, tol, update) ==
    Completed(remove_elements(agg, removed_elements, tol, update),
              "remove_elements", update, <<removed_elements, tol>>, <<"returned">>)

OpUpdateCoordinates ==
    Completed(update_coordinates(agg), "update_coordinates", TRUE, <<>>,
              <<"returned">>)

OpRotate(M) == Completed(rotate(agg, M), "rotate", TRUE, <<M>>, <<"returned">>)

OpAlign(PA) == Completed(align(agg, PA), "align", TRUE, <<PA>>, <<"returned">>)

OpProject(dim, direction) ==
    Completed(project_on_dim(agg, dim, direction).agg, "project_on_dim",
              lastop.update, <<dim, direction>>,
              project_on_dim(agg, dim, direction).out)

OpsNext ==
    \/ \E p \in OpsPoints, update \in BOOLEAN : OpAddElements(<<p>>, update)
    \/ \E p \in OpsPoints, tol \in Tolerances, update \in BOOLEAN :
           OpRemove(<<p>>, tol, update)
    \/ OpUpdateCoordinates
    \/ \E M \in Rotations : OpRotate(M)
    \/ \E PA \in Rotations : OpAlign(PA)
    \/ \E dim \in 0..3, R \in Rotations :
           \E direction \in {<<>>, <<R>>} : OpProject(dim, direction)

SpecOps == OpsInit /\ [][OpsNext]_vars

-----------------------------------------------------------------------------
(* compact_rime() called on its own, one pass of its loop per step *)

\* the calls of compact_rime: grid_res, then the fields of the call
CompactCalls ==
    { <<10, [NoCompact EXCEPT !.X_near = <<<<-9, 0, 0>>, <<-9, 0, 0>>>>,
                              !.max_dist = <<1, 10>>, !.max_iters = MAX_ITERS]>>,
      <<10, [NoCompact EXCEPT !.X_near = <<<<-9, 0, 0>>>>,
                              !.max_dist = <<1, 10>>, !.max_iters = 2]>>,
      <<10, [NoCompact EXCEPT !.X_near = <<<<40, 0, 0>>, <<40, 0, 0>>,
                                           <<40, 0, 0>>, <<40, 0, 0>>>>,
                              !.den = 2, !.max_dist = <<1, 20>>,
                              !.max_iters = MAX_ITERS]>>,
      <<1, [NoCompact EXCEPT !.X_near = <<<<-9, 0, 0>>, <<-9, 0, 0>>>>,
                             !.den = 10, !.max_dist = <<1, 10>>,
                             !.max_iters = MAX_ITERS]>>,
      <<1, [NoCompact EXCEPT !.X_near = <<<<0, 9, 0>>, <<0, 9, 0>>>>,
                             !.den = 10, !.max_dist = <<2, 1>>,
                             !.max_iters = MAX_ITERS]>>,
      <<10, [NoCompact EXCEPT !.X_near = <<<<0, 0, 0>>>>,
                              !.max_dist = <<1, 10>>, !.max_iters = MAX_ITERS]>>,
      <<10, [NoCompact EXCEPT !.max_dist = <<1, 10>>, !.max_iters = MAX_ITERS]>>,
      <<10, [NoCompact EXCEPT !.X_near = <<<<-9, 0, 0>>>>,
                              !.max_dist = <<0, 1>>, !.max_iters = MAX_ITERS]>>,
      <<10, [NoCompact EXCEPT !.X_near = <<<<-9, 0, 0>>>>,
                              !.max_dist = <<-1, 10>>, !.max_iters = MAX_ITERS]>> }

CompactInit ==
    /\ \E c \in CompactCalls : agg = NewAggregate(<<<<0, 0, 0>>>>, 0, c[1])
    /\ pre = agg
    /\ NoOperation

\* compact_rime(X, X_near, max_dist, ...) down to the head of the loop
CompactCall(c) ==
    /\ cloc.pc = "idle"
    /\ c[1] = agg.grid_res
    /\ cloc' = CompactEntry(c[2])
    /\ UNCHANGED <<agg, pre, gridVars, callVars, buildVars, rimeVars, lastop>>

\* one pass of the loop of compact_rime, with the step st
CompactPass(st) ==
    /\ cloc.pc = "loop"
    /\ ExactStep(st)
    /\ cloc' = iteration(cloc, agg.grid_res, st)
    /\ UNCHANGED <<agg, pre, gridVars, callVars, buildVars, rimeVars, lastop>>

CompactIterate ==
    CompactPass(step([k \in 1..3 |->
                         F_sum(cloc.X, cloc.X_near, agg.grid_res * cloc.den, k)],
                     agg.grid_res * cloc.den, cloc.dr))

CompactNext ==
    \/ \E c \in CompactCalls : CompactCall(c)
    \/ CompactIterate

SpecCompact == CompactInit /\ [][CompactNext]_vars

-----------------------------------------------------------------------------
(* Claims about grid() *)

RowsDistinct(x) == \A i, j \in DOMAIN x : i # j => x[i] # x[j]

\* C1: for every point cloud (any number of elements, any coordinates, any
\* res > 0) grid() returns an array with exactly as many rows as the cloud
\* has elements, and no two returned rows are equal.
C1_GridConservesAndSeparates ==
    gpc = "done" =>
        /\ gout[1] = "array"
        /\ Len(gout[2]) = Len(agg.X)
        /\ RowsDistinct(gout[2])

\* C1, the part the code keeps: a cloud with at least one element
C1_NonEmptyCloud ==
    (gpc = "done" /\ Len(agg.X) > 0) =>
        /\ gout[1] = "array"
        /\ Len(gout[2]) = Len(agg.X)
        /\ RowsDistinct(gout[2])

\* C1: grid() was called on a cloud that remove_elements had emptied
C1_EmptyCloudGridded == gpc = "done" /\ Len(agg.X) = 0

\* C11: grid() terminates for every finite point cloud: for each duplicate
\* cell the outward shell search reaches a cell absent from the occupied
\* array after finitely many candidates.  The candidates of one search are
\* different cells and every one passed over is occupied, so the search has
\* looked at no more than one candidate beyond the number of occupied cells,
\* it is at shell cube_rad only when the cube inside that shell is full, and
\* the loop index stays below the number of duplicates.
C11_ShellSearchIsFinite ==
    /\ gpc \in {"relocate", "done"} => tried <= Len(Xc) + 1
    /\ gpc = "relocate" =>
           /\ gi < Len(Xc_overlap)
           /\ (2 * cube_rad - 1) * (2 * cube_rad - 1) * (2 * cube_rad - 1)
                  <= Len(Xc)

\* C11: a duplicate inside a full 3x3x3 block was relocated to shell 2
C11_RelocatedBeyondFirstShell ==
    /\ gpc = "done"
    /\ gout[1] = "array"
    /\ Len(Xc_overlap) > 0
    /\ cube_rad = 2
    /\ tried = 27

\* the rows of x are in strictly ascending (x, y, z) order
StrictlySorted(x) ==
    \A i \in 1..(Len(x) - 1) : compare_row(x[i], x[i + 1]) = -1

RowSet(x) == {x[i] : i \in DOMAIN x}

\* the Chebyshev distance of the cells p and q
Chebyshev(p, q) ==
    Max2(Abs(p[1] - q[1]), Max2(Abs(p[2] - q[2]), Abs(p[3] - q[3])))

\* every cell nearer to Xm (Chebyshev) than c is among the rows of x
NoNearerFreeCell(c, Xm, x) ==
    \A dx, dy, dz \in (1 - Chebyshev(c, Xm))..(Chebyshev(c, Xm) - 1) :
        <<Xm[1] + dx, Xm[2] + dy, Xm[3] + dz>> \in RowSet(x)

\* the occupied cells grew from x to y by the one cell the duplicate Xm was
\* moved to: a cell free in x and nearest to Xm among the cells free in x
MovedToNearestFree(Xm, x, y) ==
    /\ Len(y) = Len(x) + 1
    /\ RowSet(x) \subseteq RowSet(y)
    /\ \E c \in RowSet(y) \ RowSet(x) : NoNearerFreeCell(c, Xm, x)

\* what a step of grid() leaves: a sorted occupied-cell array, one more cell
\* after a relocation, the rounded cells of the cloud in the output
GridStepKeepsOrder ==
    /\ (gpc' \in {"relocate", "done"} /\ gout'[1] # "IndexError") =>
           StrictlySorted(Xc')
    /\ (gpc = "relocate" /\ gi' = gi + 1) =>
           MovedToNearestFree(Xc_overlap[gi + 1], Xc, Xc')
    /\ (gpc' = "done" /\ gout'[1] = "array") =>
           RowSet(RoundedCells(agg', gcall'[1])) \subseteq RowSet(gout'[2])

\* C23: in grid(), every duplicate element is relocated to a lattice cell
\* that was unoccupied when it was processed and whose Chebyshev distance
\* from the element's rounded cell is the smallest among all cells unoccupied
\* at that moment; the occupied-cell array stays sorted lexicographically by
\* (x,y,z) and duplicate-free after every insertion, and every cell occupied
\* by a kept (non-duplicate) element stays in the output.
C23_RelocatesToNearestFreeCell == [][GridStepKeepsOrder]_vars

\* C23: two duplicates of one cell were relocated, the second past the cell
\* the first had taken
C23_TwoDuplicatesRelocated ==
    /\ gpc = "done"
    /\ gout[1] = "array"
    /\ Len(Xc_overlap) = 2
    /\ Xc_overlap[1] = Xc_overlap[2]
    /\ Len(gout[2]) = Len(agg.X)
    /\ tried = 3

-----------------------------------------------------------------------------
(* Claims about add_particle() *)

\* the element i of the pre-merge aggregate and the element j of the incoming
\* cloud, as rows of the merged aggregate, are at least grid_res apart
Apart(i, j) ==
    Dist2(agg.X[i], agg.X[Len(pre.X) + j]) >= Sq(agg.grid_res * agg.den)

\* neither point was excluded from collision candidacy by the mask
BothCandidates(i, j) ==
    /\ pen_depth_intersection_mask(pre.X, pre.den, call.pen_depth, call.mf)[i]
    /\ pen_depth_intersection_mask(call.particle, call.pden, call.pen_depth, call.mf)[j]

NoOverlap ==
    \A i \in DOMAIN pre.X, j \in DOMAIN call.particle :
        BothCandidates(i, j) => Apart(i, j)

\* C2: after a successful add_particle (height-collision reduction at its
\* default or disabled) every pair of one pre-merge element and one incoming
\* element, neither excluded by the mask, has squared distance >= grid_res^2.
C2_MergedCloudsDoNotOverlap ==
    (pc = "done" /\ result = "True") => NoOverlap

\* C2, the part the code keeps: height-collision reduction disabled, and the
\* particle not pushed in by pen_depth (pen_depth = 0 or mass fraction < 100)
C2_ExactSearchDoesNotOverlap ==
    (/\ pc = "done" /\ result = "True"
     /\ call.maxheight = "off"
     /\ (call.pen_depth = 0 \/ call.mf < 100)) => NoOverlap

\* C2: a successful merge with the default reduction, pen_depth 0 and no mask,
\* that ends with two overlapping elements
C2_OverlapUnderDefaultReduction ==
    /\ pc = "done" /\ result = "True"
    /\ call.maxheight = "default" /\ call.pen_depth = 0 /\ call.mf = 100
    /\ ~NoOverlap

SameAggregate(a, b) ==
    /\ a.X = b.X /\ a.den = b.den /\ a.ident = b.ident /\ a.extent = b.extent
    /\ a.monomer_number = b.monomer_number /\ a.id_tree = b.id_tree

\* C4: add_particle with required=False makes exactly one placement attempt;
\* when that attempt finds no site it returns False without raising and X,
\* ident, extent, monomer_number and id_tree are as before the call.
C4_SingleAttemptWhenNotRequired ==
    (~call.required /\ pc # "idle" /\ MassFractionOK(call.mf)) =>
        /\ pc = "loop" => attempts = 0
        /\ pc = "done" => attempts = 1
        /\ (pc = "done" /\ ~loc.site_found) =>
               (result = "False" /\ SameAggregate(agg, pre))

\* C4: a call with required=False whose only attempt found no site
C4_GaveUpAfterOneAttempt ==
    pc = "done" /\ ~call.required /\ attempts = 1 /\ ~loc.site_found

\* C5: add_particle with required=True never returns False: a pass that finds
\* no site is followed by another pass, whatever the number of passes before,
\* and the call ends only after a pass with a finite z separation, the
\* incoming cloud then being appended.
C5_RequiredNeverGivesUp ==
    [][(pc = "loop" /\ call.required) =>
          /\ result' # "False"
          /\ IF loc'.site_found
             THEN /\ pc' = "done"
                  /\ loc'.min_z_sep # <<>>
                  /\ Len(agg'.X) = Len(agg.X) + Len(call.particle)
             ELSE /\ pc' = "loop"
                  /\ result' = "none"
                  /\ agg' = agg]_vars

\* C5: a required call that ended with success after failed passes
C5_SucceededAfterRetries ==
    /\ pc = "done" /\ call.required /\ attempts >= 2
    /\ loc.site_found /\ Len(agg.X) = Len(pre.X) + Len(call.particle)

\* some draw of the range makes the pass find a site
SiteCanBeDrawn ==
    \E x_shift \in Draws(loc.x0, loc.x1), y_shift \in Draws(loc.y0, loc.y1) :
        /\ ExactRoots(agg, call, loc, x_shift, y_shift)
        /\ PlacementPass(agg, call, loc, x_shift, y_shift).site_found

\* C6: for two non-empty clouds whose footprints can overlap,
\* add_particle(required=True) eventually returns True under fair draws; a
\* call that has ended returns nothing more, so a required call that has
\* ended has returned True.
C6_RequiredCallReturnsTrue ==
    (pc = "done" /\ call.required /\ MassFractionOK(call.mf)) => result = "True"

\* C6, the part the code keeps: while a required call is in its loop some draw
\* finds a site, and the call ends with True when add_N_monomers was passed
C6_RequiredCallCanEnd ==
    /\ (pc = "loop" /\ call.required) => SiteCanBeDrawn
    /\ (pc = "done" /\ call.required /\ MassFractionOK(call.mf) /\ call.addN # <<>>)
           => result = "True"

\* C6: a required merge of a particle passed without add_N_monomers has ended
C6_RequiredEndedInTypeError ==
    pc = "done" /\ call.required /\ ~call.generated /\ result = "TypeError"

\* C7: add_particle with pen_depth_by_mass_fraction <= 1 or > 100 fails an
\* assertion before any placement attempt and before X, ident, extent,
\* monomer_number or id_tree change.
C7_MassFractionRejected ==
    (pc # "idle" /\ (call.mf <= 1 \/ call.mf > 100)) =>
        /\ pc = "done"
        /\ result = "AssertionError"
        /\ attempts = 0
        /\ SameAggregate(agg, pre)

\* C7: a call with a mass fraction above 100 was rejected
C7_RejectedAbove100 ==
    pc = "done" /\ call.mf > 100 /\ result = "AssertionError"

\* the aggregate candidate n and the incoming candidate e are within the
\* contact radius R of each other in the x,y plane
InReach(n, e, R) == Sq(n[1] - e[1]) + Sq(n[2] - e[2]) < R * R

\* the displacement in z that brings e just below n
ZSep(n, e, R) == n[3] - e[3] - Sqrt(R * R - Sq(n[1] - e[1]) - Sq(n[2] - e[2]))

\* the smallest number of a set, <<>> (infinite) for the empty set
Least(S) == IF S = {} THEN <<>> ELSE <<CHOOSE v \in S : \A w \in S : v <= w>>

\* the first contact: the smallest displacement over all pairs in reach
FirstContact(pc1, pc2, R) ==
    Least({ZSep(pc1[p[1]], pc2[p[2]], R) :
              p \in {q \in (DOMAIN pc1) \X (DOMAIN pc2) :
                        InReach(pc1[q[1]], pc2[q[2]], R)}})

\* the smallest, over the incoming candidates with a neighbour in reach, of
\* the largest sgn * dz over these neighbours, dz = e.z - (n.z - sqrt(...))
MinOfMaxDrops(pc1, pc2, R, sgn) ==
    Least({CHOOSE v \in {-sgn * ZSep(pc1[i], pc2[j], R) :
                            i \in {k \in DOMAIN pc1 : InReach(pc1[k], pc2[j], R)}} :
               \A i \in {k \in DOMAIN pc1 : InReach(pc1[k], pc2[j], R)} :
                   v >= -sgn * ZSep(pc1[i], pc2[j], R) :
              j \in {m \in DOMAIN pc2 :
                        \E k \in DOMAIN pc1 : InReach(pc1[k], pc2[m], R)}})

\* the z-shift of the pass over the collision sets is as claimed: the
\* minimum over the incoming candidates of the maximum over their neighbours
\* (with dz read as written or with the opposite sign), infinite exactly when
\* no pair is in reach
ShiftIsMinOfMax(sets, R) ==
    /\ find_min_distance(sets.pc1, sets.pc2, R)
           \in {MinOfMaxDrops(sets.pc1, sets.pc2, R, 1),
                MinOfMaxDrops(sets.pc1, sets.pc2, R, -1)}
    /\ find_min_distance(sets.pc1, sets.pc2, R) = <<>>
           <=> FirstContact(sets.pc1, sets.pc2, R) = <<>>

\* the z-shift of the pass is the first contact over all pairs in reach
ShiftIsFirstContact(sets, R) ==
    find_min_distance(sets.pc1, sets.pc2, R) = FirstContact(sets.pc1, sets.pc2, R)

\* an incoming candidate has two neighbours in reach that ask for different
\* displacements
TwoDrops(sets, R) ==
    \E j \in DOMAIN sets.pc2, i, k \in DOMAIN sets.pc1 :
        /\ InReach(sets.pc1[i], sets.pc2[j], R)
        /\ InReach(sets.pc1[k], sets.pc2[j], R)
        /\ ZSep(sets.pc1[i], sets.pc2[j], R) # ZSep(sets.pc1[k], sets.pc2[j], R)

\* the collision sets of the pass that draws (x_shift, y_shift)
SetsOfDraw(x_shift, y_shift) ==
    PassSets(agg, call, Shifted(loc.xyz, x_shift, y_shift, 0),
             agg.grid_res * CommonDen(agg, call))

\* C17: in add_particle the required separation of each incoming candidate
\* is the maximum, over the aggregate candidates within the contact radius
\* of it in the x,y plane, of dz = contactPoint.z - (neighbor.z - sqrt(r^2 -
\* xySepSquared)); the z-shift is the minimum of these over the incoming
\* candidates; it is infinite exactly when no pair is within the contact
\* radius.
C17_ShiftIsMinOfMaxDrops ==
    (pc = "loop" /\ attempts = 0) =>
        \A x_shift \in Draws(loc.x0, loc.x1), y_shift \in Draws(loc.y0, loc.y1) :
            ExactRoots(agg, call, loc, x_shift, y_shift) =>
                ShiftIsMinOfMax(SetsOfDraw(x_shift, y_shift),
                                agg.grid_res * CommonDen(agg, call))

\* C17 as the code has it: the z-shift is the minimum, over all pairs of an
\* aggregate candidate n and an incoming candidate e within the contact
\* radius in the x,y plane, of n.z - e.z - sqrt(r^2 - xySepSquared), the
\* first contact; it is infinite exactly when there is no such pair
C17_ShiftIsFirstContactOfAllPairs ==
    (pc = "loop" /\ attempts = 0) =>
        \A x_shift \in Draws(loc.x0, loc.x1), y_shift \in Draws(loc.y0, loc.y1) :
            ExactRoots(agg, call, loc, x_shift, y_shift) =>
                ShiftIsFirstContact(SetsOfDraw(x_shift, y_shift),
                                    agg.grid_res * CommonDen(agg, call))

\* C17: a pass is about to be made in which an incoming candidate has two
\* neighbours that ask for different displacements
C17_CandidateWithTwoNeighbours ==
    /\ pc = "loop" /\ attempts = 0
    /\ \E x_shift \in Draws(loc.x0, loc.x1), y_shift \in Draws(loc.y0, loc.y1) :
           /\ ExactRoots(agg, call, loc, x_shift, y_shift)
           /\ TwoDrops(SetsOfDraw(x_shift, y_shift),
                       agg.grid_res * CommonDen(agg, call))

\* sqrt(dmax) - sqrt(d) > q, q >= 0: the point is farther than the depth q
\* from the shell of the largest distance
FartherFromShell(d, dmax, q) ==
    /\ dmax - d - q * q > 0
    /\ Sq(dmax - d - q * q) > 4 * q * q * d

\* sqrt(dmax) - sqrt(d) < q, q >= 0: the point is nearer than the depth q
\* to the shell of the largest distance
NearerToShell(d, dmax, q) ==
    \/ dmax - d - q * q < 0
    \/ Sq(dmax - d - q * q) < 4 * q * q * d

\* the point is outside the inner part of the cloud that the mass fraction
\* keeps: its distance is beyond the distance limit
OutsideFraction(d2, i, mf) == d2[i] > KthSmallest(d2, (Len(d2) * mf) \div 100)

\* the mask over the cloud Xp leaves out exactly the points that are both
\* farther than pen_depth from the shell and outside the inner fraction
ExcludesDeepOuter(Xp, den, pen_depth, mf) ==
    \A i \in DOMAIN Xp :
        ~pen_depth_intersection_mask(Xp, den, pen_depth, mf)[i]
            <=> /\ mf < 100
                /\ FartherFromShell(distance2center(Xp)[i], SeqMax(distance2center(Xp)),
                                    pen_depth * Len(Xp) * den)
                /\ OutsideFraction(distance2center(Xp), i, mf)

\* the mask over the cloud Xp leaves out exactly the points that are both
\* nearer than pen_depth to the shell and outside the inner fraction
ExcludesShellOuter(Xp, den, pen_depth, mf) ==
    \A i \in DOMAIN Xp :
        ~pen_depth_intersection_mask(Xp, den, pen_depth, mf)[i]
            <=> /\ mf < 100
                /\ NearerToShell(distance2center(Xp)[i], SeqMax(distance2center(Xp)),
                                 pen_depth * Len(Xp) * den)
                /\ OutsideFraction(distance2center(Xp), i, mf)

\* C18: pen_depth_intersection_mask excludes a point from collision
\* candidacy exactly when it is both farther than pen_depth from the cloud's
\* maximum-radius shell and outside the inner pen_depth_by_mass_fraction
\* percentile of distance from the centroid; a point meeting either
\* inclusion criterion is kept, and with pen_depth_by_mass_fraction = 100 no
\* point is excluded.
C18_MaskExcludesDeepOuterPoints ==
    (pc # "idle" /\ MassFractionOK(call.mf)) =>
        /\ ExcludesDeepOuter(call.particle, call.pden, call.pen_depth, call.mf)
        /\ ExcludesDeepOuter(pre.X, pre.den, call.pen_depth, call.mf)

\* C18 as the code has it: the mask excludes a point exactly when it is both
\* nearer than pen_depth to the cloud's maximum-radius shell and beyond the
\* distance limit of the mass fraction; with pen_depth = 0 or
\* pen_depth_by_mass_fraction = 100 no point is excluded
C18_MaskExcludesOuterShell ==
    (pc # "idle" /\ MassFractionOK(call.mf)) =>
        /\ ExcludesShellOuter(call.particle, call.pden, call.pen_depth, call.mf)
        /\ ExcludesShellOuter(pre.X, pre.den, call.pen_depth, call.mf)
        /\ (call.pen_depth = 0 \/ call.mf = 100) =>
               \A i \in DOMAIN call.particle :
                   pen_depth_intersection_mask(call.particle, call.pden,
                                               call.pen_depth, call.mf)[i]

\* C18: a call is under way whose mask leaves out an outermost point of the
\* incoming cloud and keeps a point deep inside it
C18_OutermostPointExcluded ==
    /\ pc # "idle" /\ MassFractionOK(call.mf)
    /\ \E i, j \in DOMAIN call.particle :
           /\ ~pen_depth_intersection_mask(call.particle, call.pden,
                                           call.pen_depth, call.mf)[i]
           /\ distance2center(call.particle)[i] = SeqMax(distance2center(call.particle))
           /\ pen_depth_intersection_mask(call.particle, call.pden,
                                          call.pen_depth, call.mf)[j]
           /\ FartherFromShell(distance2center(call.particle)[j],
                               SeqMax(distance2center(call.particle)),
                               call.pen_depth * Len(call.particle) * call.pden)

\* the bounding boxes e and f share a point in x and in y
BoxesMeet(e, f) ==
    \A k \in 1..2 : e[k][1] <= f[k][2] /\ f[k][1] <= e[k][2]

\* the bounding boxes e and f share no more than an edge in x or in y
BoxesTouch(e, f) ==
    /\ BoxesMeet(e, f)
    /\ \E k \in 1..2 : e[k][1] = f[k][2] \/ f[k][1] = e[k][2]

\* the bounding box of the masked incoming cloud moved by the draw
DrawnBox(x_shift, y_shift) == ExtentOf(Shifted(loc.xyz, x_shift, y_shift, 0))

\* the bounding box of the aggregate over the common denominator
AggregateBox == ExtentOf(Scaled(agg.X, call.pden))

\* the window of the pass that draws (x_shift, y_shift) is empty
WindowEmpty(x_shift, y_shift) ==
    Candidates(agg, call, Shifted(loc.xyz, x_shift, y_shift, 0),
               overlapping_range(agg, call, Shifted(loc.xyz, x_shift, y_shift, 0),
                                 agg.grid_res * CommonDen(agg, call))).no_overlap

\* C24: in add_particle, every random (x_shift, y_shift) that is drawn places
\* the bounding box of the (masked) incoming cloud so that it intersects the
\* aggregate's bounding box in x and in y; consequently, for grid_res > 0 the
\* overlap window is never empty and the 'no footprint overlap' retry/fail
\* branch is never taken.
C24_DrawnBoxMeetsAggregate ==
    pc = "loop" =>
        \A x_shift \in Draws(loc.x0, loc.x1), y_shift \in Draws(loc.y0, loc.y1) :
            /\ BoxesMeet(DrawnBox(x_shift, y_shift), AggregateBox)
            /\ ~WindowEmpty(x_shift, y_shift)

\* C24: a pass has failed and the loop goes on; one of the draws puts the
\* incoming cloud's box edge to edge with the aggregate's box
C24_RetriedWithBoxesTouching ==
    /\ pc = "loop" /\ attempts > 0
    /\ \E x_shift \in Draws(loc.x0, loc.x1), y_shift \in Draws(loc.y0, loc.y1) :
           /\ BoxesTouch(DrawnBox(x_shift, y_shift), AggregateBox)
           /\ ~WindowEmpty(x_shift, y_shift)

\* the element i of the pre-merge aggregate and the element j of the incoming
\* cloud, as rows of the merged aggregate, have centre distance grid_res, the
\* incoming element lower in z
InContactBelow(i, j) ==
    /\ Dist2(agg.X[i], agg.X[Len(pre.X) + j]) = Sq(agg.grid_res * agg.den)
    /\ agg.X[Len(pre.X) + j][3] < agg.X[i][3]

\* the two elements are not one above the other
Oblique(i, j) ==
    \/ agg.X[i][1] # agg.X[Len(pre.X) + j][1]
    \/ agg.X[i][2] # agg.X[Len(pre.X) + j][2]

\* C25: after a successful add_particle with pen_depth = 0 and
\* pen_depth_by_mass_fraction = 100, the incoming cloud is in contact with the
\* aggregate: at least one pair (one pre-merge aggregate element, one incoming
\* element) has centre distance exactly grid_res, with the incoming element
\* lying below the aggregate element in z.
C25_MergedCloudsInContact ==
    (/\ pc = "done" /\ result = "True"
     /\ call.pen_depth = 0 /\ call.mf = 100) =>
        \E i \in DOMAIN pre.X, j \in DOMAIN call.particle : InContactBelow(i, j)

\* C25: a merge of two clouds of several elements each, whose contact pair is
\* not one element straight above the other
C25_ObliqueContactOfTwoClouds ==
    /\ pc = "done" /\ result = "True"
    /\ call.pen_depth = 0 /\ call.mf = 100
    /\ Len(pre.X) > 1 /\ Len(call.particle) > 1
    /\ \E i \in DOMAIN pre.X, j \in DOMAIN call.particle :
           InContactBelow(i, j) /\ Oblique(i, j)

-----------------------------------------------------------------------------
(* Claims about generate_aggregate() *)

\* C3: generate_aggregate(monomer_generator, N) ends by returning one
\* aggregate whose monomer_number equals N, every merge being done through
\* add_particle(particle=<consumed cloud>, required=True).
C3_ReturnsAggregateOfNMonomers ==
    /\ (bpc = "done" /\ bsel.N >= 1) =>
           (bout = "returned" /\ Len(pool) = 1 /\ pool[1].monomer_number = bsel.N)
    /\ bpc = "merge" =>
           (call.required /\ call.particle = pool[bsel.btm].X)

\* C3, the part the code keeps: merges go through add_particle with
\* required=True and the consumed cloud, and a single monomer is returned
C3_SingleMonomerReturned ==
    /\ (bpc = "done" /\ bsel.N = 1) =>
           (bout = "returned" /\ Len(pool) = 1 /\ pool[1].monomer_number = 1)
    /\ bpc = "merge" =>
           (call.required /\ call.particle = pool[bsel.btm].X)

\* C3: the first merge of a build with N >= 2 has raised, the elements of the
\* consumed cloud already appended and monomer_number still 1
C3_FirstMergeRaised ==
    /\ bpc = "done" /\ bsel.N >= 2 /\ bout = "TypeError"
    /\ Len(pool[bsel.top].X) = Len(pre.X) + Len(pool[bsel.btm].X)
    /\ pool[bsel.top].monomer_number = 1

\* C10: in generate_aggregate with N >= 2 every accepted pair is two different
\* pool entries, each accepted merge removes exactly the merged-in aggregate,
\* so the pool shrinks by one per merge, and under fair draws the pool
\* eventually holds exactly one aggregate, which is returned; a call that has
\* ended does nothing more, so one that has ended has returned that aggregate.
C10_PoolShrinksToOne ==
    /\ bpc = "merge" => bsel.i # bsel.j
    /\ (bpc = "done" /\ bsel.N >= 2) => (bout = "returned" /\ Len(pool) = 1)

\* C10, the part the code keeps: accepted pairs are two different entries,
\* the one of smaller m_r being the consumed one
C10_AcceptedPairsDiffer ==
    bpc = "merge" =>
        /\ bsel.i # bsel.j
        /\ {bsel.top, bsel.btm} = {bsel.i, bsel.j}
        /\ Len(pool) = bsel.N

\* C10: a build with N >= 2 has ended with the pool as long as at the start
C10_EndedWithFullPool ==
    bpc = "done" /\ bsel.N >= 2 /\ Len(pool) = bsel.N /\ bout # "returned"

-----------------------------------------------------------------------------
(* Claims about add_rime_particles() *)

\* the first n rows of the cloud of a are the rows of the cloud of b
SameRows(a, b, n) ==
    \A i \in 1..n, k \in 1..3 : a.X[i][k] * b.den = b.X[i][k] * a.den

SameExtent(a, b) ==
    \A k \in 1..3, e \in 1..2 : a.extent[k][e] * b.den = b.extent[k][e] * a.den

\* C8: add_rime_particles(N=0), called on an aggregate in any reachable state
\* (freshly constructed included), leaves the point cloud X, the identifiers
\* and the extent exactly as they were before the call.
C8_ZeroRimeChangesNothing ==
    (rpc = "done" /\ rloc.N = 0) =>
        /\ Len(agg.X) = Len(pre.X)
        /\ SameRows(agg, pre, Len(pre.X))
        /\ agg.ident = pre.ident
        /\ SameExtent(agg, pre)

\* C8, the part the code keeps: the count and the identifiers stay, and the
\* cloud and the extent stay when the centroid was at the origin
C8_ZeroRimeKeepsCentredCloud ==
    (rpc = "done" /\ rloc.N = 0) =>
        /\ Len(agg.X) = Len(pre.X)
        /\ agg.ident = pre.ident
        /\ (\A k \in 1..3 : SeqSum(Col(pre.X, k)) = 0) =>
               (SameRows(agg, pre, Len(pre.X)) /\ SameExtent(agg, pre))

\* C8: a call with N=0 on a freshly constructed aggregate has moved the cloud
C8_ZeroRimeMovedCloud ==
    /\ rpc = "done" /\ rloc.N = 0
    /\ pre.monomer_number = 1
    /\ ~SameRows(agg, pre, Len(pre.X))
    /\ ~SameExtent(agg, pre)

\* C9: add_rime_particles(N) that returns has appended exactly N elements, all
\* with the identifier RIME_IDENT (-1), while the elements present before keep
\* their identifiers and their order, their coordinates changed only by the
\* common recentring translation.
C9_AppendsNRimeElements ==
    rpc = "done" =>
        /\ Len(agg.X) = Len(pre.X) + rloc.N
        /\ Len(agg.ident) = Len(agg.X)
        /\ \A i \in 1..rloc.N : agg.ident[Len(pre.X) + i] = -1
        /\ \A i \in DOMAIN pre.X : agg.ident[i] = pre.ident[i]
        /\ \A i \in DOMAIN pre.X, k \in 1..3 :
               agg.X[i][k] * pre.den - pre.X[i][k] * agg.den
                   = agg.X[1][k] * pre.den - pre.X[1][k] * agg.den

\* C9: a call for two rime particles has returned, the cloud recentred
C9_TwoRimeParticlesAdded ==
    /\ rpc = "done" /\ rloc.N = 2 /\ Len(pre.X) = 2
    /\ Len(rloc.added_particles) = 2
    /\ agg.X[1] # pre.X[1]

\* the rime point committed last, and the elements the aggregate held at
\* that moment: the cloud and the rime placed earlier in the batch
LastRime == rloc.added_particles[Len(rloc.added_particles)]

ItemsBefore ==
    IF rloc.N > 1 THEN SubSeq(rloc.items, 1, Len(rloc.items) - 1) ELSE rloc.items

\* p sits at the lower contact of a lowest element within reach of it
AtBottomLowerContact(items, p, R) ==
    \E b \in DOMAIN items :
        /\ Sq(items[b][1] - p[1]) + Sq(items[b][2] - p[2]) < R * R
        /\ \A j \in DOMAIN items :
               (Sq(items[j][1] - p[1]) + Sq(items[j][2] - p[2]) < R * R)
                   => items[b][3] <= items[j][3]
        /\ p[3] < items[b][3]
        /\ Dist2(items[b], p) = R * R

\* p touches one element at exactly R and is no nearer than R to any other
RestsClear(items, p, R) ==
    \E c \in DOMAIN items :
        /\ Dist2(items[c], p) = R * R
        /\ \A j \in DOMAIN items : j # c => Dist2(items[j], p) >= R * R

\* C19: with compaction disabled, every rime sphere committed at a contact
\* height other than the bottom-most candidate's lower contact has centre
\* distance >= grid_res to every element in the aggregate at that moment
\* (original elements and rime placed earlier in the batch), except the
\* candidate it rests on, which it touches at exactly grid_res.
C19_CommittedRimeOverlapsNothing ==
    (rpc # "idle" /\ Len(rloc.added_particles) > 0) =>
        (\/ AtBottomLowerContact(ItemsBefore, LastRime, pre.grid_res * pre.den)
         \/ RestsClear(ItemsBefore, LastRime, pre.grid_res * pre.den))

\* C19: a rime sphere has been committed, not at the bottom-most
\* candidate's lower contact, nearer than grid_res to an element that lies
\* above the rows the overlap search kept
C19_RimeOverlapsElementAbove ==
    /\ rpc # "idle" /\ Len(rloc.added_particles) > 0
    /\ ~AtBottomLowerContact(ItemsBefore, LastRime, pre.grid_res * pre.den)
    /\ \E j \in DOMAIN ItemsBefore :
           /\ Dist2(ItemsBefore[j], LastRime) < Sq(pre.grid_res * pre.den)
           /\ ItemsBefore[j][3] > LastRime[3]

\* some element the deposit searches is within grid_res of the draw in the
\* x,y plane
HasNearbyElement(xs, ys) ==
    \E i \in DOMAIN rloc.items :
        Sq(rloc.items[i][1] - xs) + Sq(rloc.items[i][2] - ys)
            < Sq(pre.grid_res * pre.den)

\* the outcome of the pass that draws (xs, ys)
PassOfDraw(xs, ys) ==
    RimePass(rloc.items, rloc.N > 1, xs, ys,
             pre.grid_res * pre.den, rloc.pen_depth * pre.den)

\* the pass of the draw ends with a site exactly when an element is nearby
SiteIffNearby(xs, ys, site) ==
    site[1] # "inexact" => (site[1] = "site" <=> HasNearbyElement(xs, ys))

\* C20: in add_rime_particles, every random (x,y) draw that has at least one
\* existing element within grid_res of it in the x,y plane yields a site in
\* that same draw, for every pen_depth; a retry happens only when the draw
\* has no nearby element.
C20_NearbyElementYieldsSite ==
    rpc = "place" =>
        \A xs \in Draws(rloc.x0, rloc.x1), ys \in Draws(rloc.y0, rloc.y1) :
            SiteIffNearby(xs, ys, PassOfDraw(xs, ys))

\* C20, the part the code keeps: with pen_depth > 0 a draw yields a site
\* exactly when it has a nearby element
C20_PositiveDepthYieldsSite ==
    (rpc = "place" /\ rloc.pen_depth > 0) =>
        \A xs \in Draws(rloc.x0, rloc.x1), ys \in Draws(rloc.y0, rloc.y1) :
            SiteIffNearby(xs, ys, PassOfDraw(xs, ys))

\* C20: a rime particle is to be placed with pen_depth = 0, and a draw that
\* has a nearby element ends without a site
C20_DrawWithNeighbourRetried ==
    /\ rpc = "place" /\ rloc.pen_depth = 0
    /\ \E xs \in Draws(rloc.x0, rloc.x1), ys \in Draws(rloc.y0, rloc.y1) :
           /\ HasNearbyElement(xs, ys)
           /\ PassOfDraw(xs, ys) = <<"none">>

\* the point p is one of the rows
InRows(p, rows) == \E i \in DOMAIN rows : rows[i] = p

\* the rime committed before the last one
EarlierRime == SubSeq(rloc.added_particles, 1, Len(rloc.added_particles) - 1)

\* the rime point p was within the compaction neighbourhood (twice grid_res)
\* of the site of the last deposit
NearLastSite(p) == Dist2(p, rloc.site) < 4 * Sq(pre.grid_res * pre.den)

\* C21: within one add_rime_particles call with N > 1, each rime point is,
\* from the moment it is committed, part of the neighbour set that every
\* later deposit of the same call searches, both for choosing a contact site
\* and for the compaction neighbourhood, although the batch is appended to X
\* only after the last deposit.
C21_BatchRimeIsSearched ==
    (rpc # "idle" /\ rloc.N > 1) =>
        /\ \A i \in DOMAIN rloc.added_particles :
               InRows(rloc.added_particles[i], rloc.items)
        /\ (rloc.compact_dist[1] > 0 /\ Len(rloc.added_particles) > 1) =>
               \A i \in DOMAIN EarlierRime :
                   NearLastSite(EarlierRime[i]) => InRows(EarlierRime[i], rloc.X_near)
        /\ rpc = "place" => Len(agg.X) = Len(pre.X)

\* C21, the part the code keeps: the committed rime is part of the set
\* searched for contact sites, and X grows only after the last deposit
C21_BatchRimeIsSearchedForSites ==
    (rpc # "idle" /\ rloc.N > 1) =>
        /\ \A i \in DOMAIN rloc.added_particles :
               InRows(rloc.added_particles[i], rloc.items)
        /\ rpc = "place" => Len(agg.X) = Len(pre.X)

\* C21: a deposit of a batch with compaction has looked up its compaction
\* neighbourhood, and a rime point committed earlier in the batch, within
\* twice grid_res of the site, is not in it
C21_EarlierRimeNotInNeighbourhood ==
    /\ rpc # "idle" /\ rloc.N > 1 /\ rloc.compact_dist[1] > 0
    /\ Len(rloc.added_particles) > 1
    /\ \E i \in DOMAIN EarlierRime :
           /\ NearLastSite(EarlierRime[i])
           /\ ~InRows(EarlierRime[i], rloc.X_near)

-----------------------------------------------------------------------------
(* Claims about the bookkeeping of extent and centroid *)

\* the member function called last was a mutating one that finished its
\* bookkeeping (update=True where it has that argument), or none was called
Settled ==
    \/ lastop.name = "none"
    \/ lastop.name \in {"add_elements", "remove_elements", "update_coordinates"}
          /\ lastop.update
    \/ lastop.name \in {"rotate", "align"}
    \/ lastop.name = "project_on_dim" /\ lastop.args[2] # <<>>

\* extent is the bounding box of the rows of X, the zero box for no rows
IsBoundingBox(X, extent) ==
    IF Len(X) = 0 THEN extent = <<<<0, 0>>, <<0, 0>>, <<0, 0>>>>
    ELSE \A k \in 1..3 :
             /\ \A i \in DOMAIN X : extent[k][1] <= X[i][k] /\ X[i][k] <= extent[k][2]
             /\ \E i \in DOMAIN X : extent[k][1] = X[i][k]
             /\ \E i \in DOMAIN X : extent[k][2] = X[i][k]

\* C12: after construction and after every completed mutating operation run
\* with update=True (add_elements, remove_elements, add_particle that found a
\* site, add_rime_particles, rotate, align, project_on_dim with a direction)
\* extent[k] is [min, max] of coordinate k over the rows of X, and
\* [[0,0],[0,0],[0,0]] when X has no rows.
C12_ExtentIsBoundingBox ==
    (Settled /\ rpc # "place") => IsBoundingBox(agg.X, agg.extent)

\* C12: remove_elements with update=True has emptied a cloud
C12_EmptiedCloudHasZeroExtent ==
    /\ lastop.name = "remove_elements" /\ lastop.update
    /\ Len(pre.X) > 0 /\ pre.extent # ZeroExtent
    /\ Len(agg.X) = 0
    /\ agg.extent = ZeroExtent

\* the centroid of the rows of X is the origin
Centred(X) == \A k \in 1..3 : SeqSum(Col(X, k)) = 0

\* C13: after every completed mutating operation (add_elements or
\* remove_elements with update=True, rotate, align), whatever the operations
\* since construction, the centroid of X is the origin.
C13_CentroidAtOrigin ==
    (\/ lastop.name \in {"add_elements", "remove_elements"} /\ lastop.update
     \/ lastop.name \in {"rotate", "align"})
        => Centred(agg.X)

\* C13, the part the code keeps: the operations that recentre (add_elements
\* and remove_elements with update=True, update_coordinates, rotate)
C13_RecentringOperations ==
    (\/ lastop.name \in {"add_elements", "remove_elements", "update_coordinates"}
           /\ lastop.update
     \/ lastop.name = "rotate")
        => Centred(agg.X)

\* C13: align() was the first call on a constructed aggregate and left the
\* centroid away from the origin
C13_AlignedOffCentre ==
    lastop.name = "align" /\ lastop.n = 1 /\ ~Centred(agg.X)

-----------------------------------------------------------------------------
(* Claims about remove_elements() and project_on_dim() *)

\* element i of a lies below tol grid spacings from some target
WithinTolerance(a, i, targets, tol) ==
    \E j \in DOMAIN targets :
        (Sq(a.X[i][1] - targets[j][1] * a.den)
           + Sq(a.X[i][2] - targets[j][2] * a.den)
           + Sq(a.X[i][3] - targets[j][3] * a.den)) * tol[2] * tol[2]
            < a.grid_res * a.grid_res * a.den * a.den * tol[1] * tol[1]

\* the aggregate now holds the rows and identifiers of before that keep
\* selects, in their order, recentred when update is set
HoldsRows(before, keep, now, update) ==
    /\ now.ident = SelectRows(before.ident, keep)
    /\ Len(now.X) = Len(now.ident)
    /\ IF update
       THEN LET c == Recentred(SelectRows(before.X, keep), before.den)
            IN  now.X = c.X /\ now.den = c.den
       ELSE now.X = SelectRows(before.X, keep) /\ now.den = before.den

\* C14: remove_elements(targets, tolerance) removes exactly the elements
\* whose squared distance to at least one target is below
\* tolerance^2 * grid_res^2, removes their identifiers with them, and keeps
\* every other element in its original order.
C14_RemovesWithinTolerance ==
    lastop.name = "remove_elements" =>
        HoldsRows(pre, [i \in DOMAIN pre.X |->
                           ~WithinTolerance(pre, i, lastop.args[1], lastop.args[2])],
                  agg, lastop.update)

\* C14: remove_elements returned with an element closer than tolerance grid
\* spacings to a target still in the cloud
C14_KeptInsideTolerance ==
    /\ lastop.name = "remove_elements"
    /\ \E i \in DOMAIN pre.X :
           WithinTolerance(pre, i, lastop.args[1], lastop.args[2])
    /\ Len(agg.X) = Len(pre.X)

\* what project_on_dim is claimed to do for an axis selector outside {0,1,2}
InvalidAxisReported ==
    /\ lastop.out = <<"AttributeError">>
    /\ agg.X = pre.X /\ agg.den = pre.den
    /\ agg.extent = pre.extent

-----------------------------------------------------------------------------
(* Claims about compact_rime() *)

\* the returned point is within max_dist * grid_res of the input point
\* (strictly: at that distance exactly), G being grid_res over den
WithinBudget(l, G, exactly) ==
    IF exactly
    THEN Dist2(l.X, l.X_old) * l.max_dist[2] * l.max_dist[2]
             = l.max_dist[1] * l.max_dist[1] * G * G
    ELSE Dist2(l.X, l.X_old) * l.max_dist[2] * l.max_dist[2]
             <= l.max_dist[1] * l.max_dist[1] * G * G

\* C16: compact_rime returns a point whose distance from the input point is
\* at most max_dist * grid_res, for every grid_res > 0 and every neighbour
\* set; a point that was pulled back lies exactly at that distance; with
\* max_dist <= 0 the input point is returned unmoved.
C16_ReturnsWithinBudget ==
    cloc.pc = "done" =>
        /\ cloc.max_dist[1] <= 0 => cloc.X = cloc.X_old
        /\ cloc.max_dist[1] > 0 =>
               /\ WithinBudget(cloc, agg.grid_res * cloc.den, FALSE)
               /\ cloc.clamped => WithinBudget(cloc, agg.grid_res * cloc.den, TRUE)

\* C16, the part the code keeps: when grid_res is 1 the budget holds, a
\* point that was pulled back lies exactly on it for every grid_res, and
\* max_dist <= 0 returns the input point
C16_BudgetAtUnitGridRes ==
    cloc.pc = "done" =>
        /\ cloc.max_dist[1] <= 0 => cloc.X = cloc.X_old
        /\ (cloc.max_dist[1] > 0 /\ agg.grid_res = 1) =>
               WithinBudget(cloc, agg.grid_res * cloc.den, FALSE)
        /\ cloc.clamped => WithinBudget(cloc, agg.grid_res * cloc.den, TRUE)

\* C16: compact_rime ran its max_iters passes and returned a point further
\* than max_dist * grid_res from the input point
C16_ReturnedBeyondBudget ==
    /\ cloc.pc = "done"
    /\ cloc.it = MAX_ITERS
    /\ cloc.max_dist[1] > 0
    /\ ~WithinBudget(cloc, agg.grid_res * cloc.den, FALSE)

\* the neighbour n of the point X contributes (c[1], c[2], c[3]) to F, three
\* rationals over one positive denominator; the sign of the contribution
\* along the direction from X to n: 1 toward the neighbour, -1 away from it,
\* 0 when it is across or nothing
Along(X, n, c) ==
    LET d == (n[1] - X[1]) * c[1][1] + (n[2] - X[2]) * c[2][1]
               + (n[3] - X[3]) * c[3][1]
    IN  IF d > 0 THEN 1 ELSE IF d < 0 THEN -1 ELSE 0

\* what the neighbour n adds to F in the pass made from X
Contribution(X, n, G) ==
    [k \in 1..3 |-> Fi([c \in 1..3 |-> n[c] - X[c]], Sqrt(Dist2(n, X)), G, k)]

\* the step of the pass made from the locals l
StepOf(l, G) == step([k \in 1..3 |-> F_sum(l.X, l.X_near, G, k)], G, l.dr)

\* the step is no longer than dr * grid_res
StepWithinDr(st, G, dr) ==
    ExactStep(st) =>
        (Sq(st[1][1] \div st[1][2]) + Sq(st[2][1] \div st[2][2])
           + Sq(st[3][1] \div st[3][2])) * dr[2] * dr[2] <= Sq(G * dr[1])

\* C22: in each compact_rime iteration the force contributed by a neighbour
\* is repulsive (pushes the point away from the neighbour) when the neighbour
\* is farther than the contact radius grid_res, attractive (pulls the point
\* toward the neighbour) when it is closer than the contact radius but not
\* nearly coincident, and zero when the squared distance is below
\* 0.01 * grid_res^2; the resulting step has length at most dr * grid_res.
C22_FarRepelsNearAttracts ==
    cloc.pc = "loop" =>
        /\ \A i \in DOMAIN cloc.X_near :
               Along(cloc.X, cloc.X_near[i],
                     Contribution(cloc.X, cloc.X_near[i], agg.grid_res * cloc.den))
                 = IF Dist2(cloc.X_near[i], cloc.X) > Sq(agg.grid_res * cloc.den)
                   THEN -1
                   ELSE IF 100 * Dist2(cloc.X_near[i], cloc.X) < Sq(agg.grid_res * cloc.den)
                   THEN 0
                   ELSE 1
        /\ StepWithinDr(StepOf(cloc, agg.grid_res * cloc.den),
                        agg.grid_res * cloc.den, cloc.dr)

\* C22 as the code has it: the force contributed by a neighbour is attractive
\* (pulls the point toward the neighbour) when the neighbour is farther than
\* the contact radius grid_res, repulsive (pushes the point away from the
\* neighbour) when it is at or within the contact radius but not nearly
\* coincident, and zero when the squared distance is below
\* 0.01 * grid_res^2; the resulting step has length at most dr * grid_res
C22_FarAttractsNearRepels ==
    cloc.pc = "loop" =>
        /\ \A i \in DOMAIN cloc.X_near :
               /\ Along(cloc.X, cloc.X_near[i],
                        Contribution(cloc.X, cloc.X_near[i], agg.grid_res * cloc.den))
                    = IF Dist2(cloc.X_near[i], cloc.X) > Sq(agg.grid_res * cloc.den)
                      THEN 1
                      ELSE IF 100 * Dist2(cloc.X_near[i], cloc.X)
                                < Sq(agg.grid_res * cloc.den)
                      THEN 0
                      ELSE -1
               /\ 100 * Dist2(cloc.X_near[i], cloc.X) < Sq(agg.grid_res * cloc.den)
                    => \A k \in 1..3 :
                           Contribution(cloc.X, cloc.X_near[i],
                                        agg.grid_res * cloc.den)[k][1] = 0
        /\ StepWithinDr(StepOf(cloc, agg.grid_res * cloc.den),
                        agg.grid_res * cloc.den, cloc.dr)

\* C22: a pass has moved the point, and the next pass is made with a
\* neighbour at the contact radius that pushes the point away
C22_PushedAwayFromNearNeighbour ==
    /\ cloc.pc = "loop" /\ cloc.it > 0 /\ cloc.X # cloc.X_old
    /\ \E i \in DOMAIN cloc.X_near :
           /\ Dist2(cloc.X_near[i], cloc.X) <= Sq(agg.grid_res * cloc.den)
           /\ Along(cloc.X, cloc.X_near[i],
                    Contribution(cloc.X, cloc.X_near[i], agg.grid_res * cloc.den)) = -1

====
